---------------------------- MODULE Spec2Model ----------------------------
(***************************************************************************)
(* A model of the lomik/hub publish/subscribe engine: the key-sorted       *)
(* attribute map (pkg/kv), the ID-sorted sublist, the three indexes of the *)
(* Hub, the candidate merge, and the four publish modes with the RWMutex,  *)
(* the WaitGroup, the sync.Once and the handler goroutines.                *)
(***************************************************************************)
EXTENDS Integers, Sequences, FiniteSets

\* ------------------------------------------------------------------ bounds

\* Subscribe calls (the value seq may reach) under Spec.
MaxSubs == 2
\* Subscribe calls under SpecSeq.
MaxSubsSeq == 2
\* Subscribe calls under SpecRace.
MaxSubsRace == 2
\* Subscribe calls under SpecLock.
MaxSubsLock == 1
\* Subscribe calls under SpecFin.
MaxSubsFin == 3
\* Subscribe, Unsubscribe and Clear calls under SpecLen.
MaxSubsLen == 2
MaxUnsubCalls == 2
MaxClearCalls == 1
MaxPairs == 2
MaxTokens == 3
MaxTokenLen == 2
MaxEvents == 4
MaxCallbacks == 3
MaxSubsErr == 2
MaxSubsOnce == 2
MaxSubsFair == 3
MaxLists == 3
MaxListLen == 2
MaxID == 3
MaxStop == 2
MaxSlID == 4
MaxSlLen == 4
MaxOpts == 3
MaxSubsLive == 3

\* Subscriptions made under SpecNested.
MaxSubsNested == 2

\* Subscriptions made under SpecReenter.
MaxSubsReenter == 2

\* Subscriptions made under SpecGone.
MaxSubsGone == 2

\* The largest ID and the longest sublist under SpecFind.
MaxFindID == 4

MaxFindLen == 3
MaxSubsClear == 2

\* ------------------------------------------------------- attribute map (kv)

\* Any is the wildcard value of topic.go.
Any == "*"

\* Keys in ascending string order; KeyRank gives Go's string comparison.
KeyOrder == <<"a", "b", "c">>

KeyRank(k) == CHOOSE i \in 1..Len(KeyOrder) : KeyOrder[i] = k

KeyLess(k1, k2) == KeyRank(k1) < KeyRank(k2)

KV(k, v) == [key |-> k, value |-> v]

\* Map.Len
MapLen(m) == Len(m)

RECURSIVE MatchWalk(_, _, _, _)
\* The loop of Map.Match over the two key-sorted lists, i and j 1-based.
MatchWalk(a, b, i, j) ==
    IF i <= Len(a) /\ j <= Len(b)
    THEN IF KeyLess(a[i].key, b[j].key) THEN FALSE
         ELSE IF KeyLess(b[j].key, a[i].key) THEN MatchWalk(a, b, i, j + 1)
         ELSE IF a[i].value # Any /\ b[j].value # Any /\ a[i].value # b[j].value
              THEN FALSE
              ELSE MatchWalk(a, b, i + 1, j + 1)
    ELSE i = Len(a) + 1

\* Match as it would be if the two lists were compared position by position.
MatchZip(m, other) ==
    /\ Len(m) <= Len(other)
    /\ \A i \in 1..Len(m) :
          /\ m[i].key = other[i].key
          /\ m[i].value = Any \/ other[i].value = Any \/ m[i].value = other[i].value

\* Map.Match / Topic.Match: does `other` satisfy the pattern m.
Match(m, other) == MatchWalk(m, other, 1, 1)

RECURSIVE MergeWalk(_, _, _, _)
\* The loop of Map.Merge over the two key-sorted lists, i and j 1-based, and
\* the two appends of what is left.
MergeWalk(a, b, i, j) ==
    IF i <= Len(a) /\ j <= Len(b)
    THEN IF KeyLess(a[i].key, b[j].key) THEN <<a[i]>> \o MergeWalk(a, b, i + 1, j)
         ELSE IF KeyLess(b[j].key, a[i].key) THEN <<b[j]>> \o MergeWalk(a, b, i, j + 1)
         ELSE <<b[j]>> \o MergeWalk(a, b, i + 1, j + 1)
    ELSE SubSeq(a, i, Len(a)) \o SubSeq(b, j, Len(b))

\* Map.Merge: the pairs of m and of other, other's on equal keys.
Merge(m, other) == MergeWalk(m, other, 1, 1)

\* A token given to Parse is a sequence of characters; these are the
\* characters in ascending byte order.
CharOrder == <<"=", "\\", "a">>

CharRank(c) == CHOOSE i \in 1..Len(CharOrder) : CharOrder[i] = c

\* Go's x < y on strings: the first differing byte decides, a proper prefix
\* is smaller.
StrLess(x, y) ==
    \E i \in 1..Len(y) :
        /\ i <= Len(x) + 1
        /\ SubSeq(x, 1, i - 1) = SubSeq(y, 1, i - 1)
        /\ i = Len(x) + 1 \/ CharRank(x[i]) < CharRank(y[i])

RECURSIVE EqualsFrom(_, _)
\* The loop of findUnescapedEquals from the 0-based index i.
EqualsFrom(str, i) ==
    IF i < Len(str)
    THEN IF str[i + 1] = "\\" THEN EqualsFrom(str, i + 2)
         ELSE IF str[i + 1] = "=" THEN i
         ELSE EqualsFrom(str, i + 1)
    ELSE -1

\* findUnescapedEquals as it would be if a backslash were an ordinary byte.
findEquals(str) ==
    IF \E i \in 1..Len(str) : str[i] = "="
    THEN (CHOOSE i \in 1..Len(str) : str[i] = "=" /\ \A j \in 1..(i - 1) : str[j] # "=") - 1
    ELSE -1

\* findUnescapedEquals: the 0-based index of the first '=' that no backslash
\* precedes, or -1.
findUnescapedEquals(str) == EqualsFrom(str, 0)

RECURSIVE UnescapeFrom(_, _)
\* The loop of unescape from the 0-based index i.
UnescapeFrom(str, i) ==
    IF i < Len(str)
    THEN IF str[i + 1] = "\\" /\ i + 1 < Len(str)
         THEN <<str[i + 2]>> \o UnescapeFrom(str, i + 2)
         ELSE <<str[i + 1]>> \o UnescapeFrom(str, i + 1)
    ELSE <<>>

\* unescape: every backslash that has a successor is dropped and the
\* successor kept.
unescape(str) == UnescapeFrom(str, 0)

\* What Parse returns: the error flag and the pairs.
ParseError == [err |-> TRUE, data |-> <<>>]

RECURSIVE ParseFrom(_, _)
\* The loop of Parse from the 0-based token index i: the pairs in the order
\* of the tokens, or the error.
ParseFrom(d, i) ==
    IF i < Len(d)
    THEN LET p == findUnescapedEquals(d[i + 1]) IN
         IF p < 0
         THEN IF i + 1 >= Len(d)
              THEN ParseError
              ELSE LET rest == ParseFrom(d, i + 2) IN
                   IF rest.err THEN rest
                   ELSE [rest EXCEPT !.data = <<KV(d[i + 1], d[i + 2])>> \o @]
         ELSE LET rest == ParseFrom(d, i + 1) IN
              IF rest.err THEN rest
              ELSE [rest EXCEPT !.data =
                       <<KV(unescape(SubSeq(d[i + 1], 1, p)),
                            unescape(SubSeq(d[i + 1], p + 2, Len(d[i + 1]))))>> \o @]
    ELSE [err |-> FALSE, data |-> <<>>]

\* sortKeys: sort.Slice by key is not stable, so every arrangement of the
\* pairs with the keys in ascending order is a possible outcome.
sortKeys(data) ==
    LET n == Len(data)
        Perms == {f \in [1..n -> 1..n] : \A i, j \in 1..n : f[i] = f[j] => i = j}
    IN  {[i \in 1..n |-> data[f[i]]] :
            f \in {g \in Perms : \A i \in 1..(n - 1) :
                                  ~StrLess(data[g[i + 1]].key, data[g[i]].key)}}

\* Parse: the outcomes of the call with the tokens d.
Parse(d) ==
    LET r == ParseFrom(d, 0) IN
    IF r.err THEN {r} ELSE {[r EXCEPT !.data = m] : m \in sortKeys(r.data)}

\* -------------------------------------------------------------- sublist

RECURSIVE SearchLoop(_, _, _, _)
\* sort.Search over lst with the predicate lst[h].id >= id: i, j are Go's
\* 0-based bounds; the result is the 0-based insertion point.
SearchLoop(lst, id, i, j) ==
    IF i < j
    THEN LET h == (i + j) \div 2
         IN  IF ~(lst[h + 1] >= id) THEN SearchLoop(lst, id, h + 1, j)
                                    ELSE SearchLoop(lst, id, i, h)
    ELSE i

RECURSIVE SearchAboveLoop(_, _, _, _)
\* A binary search for the first element above id, not at or above it.
SearchAboveLoop(lst, id, i, j) ==
    IF i < j
    THEN LET h == (i + j) \div 2
         IN  IF ~(lst[h + 1] > id) THEN SearchAboveLoop(lst, id, h + 1, j)
                                   ELSE SearchAboveLoop(lst, id, i, h)
    ELSE i

SearchAbove(lst, id) == SearchAboveLoop(lst, id, 0, Len(lst))

Search(lst, id) == SearchLoop(lst, id, 0, Len(lst))

\* SlAdd as it would be if the new element were appended.
SlAppend(lst, id) == Append(lst, id)

\* sublist.add: insert before the first element with an ID >= the new one.
SlAdd(lst, id) ==
    LET idx == Search(lst, id)
    IN  SubSeq(lst, 1, idx) \o <<id>> \o SubSeq(lst, idx + 1, Len(lst))

\* sublist.remove: delete the element found by the binary search, if it is id.
SlRemove(lst, id) ==
    LET idx == Search(lst, id)
    IN  IF idx < Len(lst) /\ lst[idx + 1] = id
        THEN SubSeq(lst, 1, idx) \o SubSeq(lst, idx + 2, Len(lst))
        ELSE lst

\* sublist.find: the 0-based index of id, or -1.
SlFind(lst, id) ==
    LET idx == Search(lst, id)
    IN  IF idx < Len(lst) /\ lst[idx + 1] = id THEN idx ELSE -1

\* sublist.len
SlLen(lst) == Len(lst)

\* A *sublist: nil, or a pointer to a sublist with the IDs lst.
NilSublist == [nil |-> TRUE, lst |-> <<>>]

SublistPtr(lst) == [nil |-> FALSE, lst |-> lst]

\* sublist.len on a *sublist: 0 for the nil receiver.
SublistLen(sl) == IF sl.nil THEN 0 ELSE SlLen(sl.lst)

RECURSIVE PickFirst(_, _, _, _)
\* PickSmallest as it would be if the lists were chained instead of merged:
\* the first list that is not exhausted.
PickFirst(lists, indices, i, best) ==
    IF i > Len(lists) THEN best
    ELSE IF indices[i] >= Len(lists[i]) THEN PickFirst(lists, indices, i + 1, best)
    ELSE IF best = 0 THEN PickFirst(lists, indices, i + 1, i)
         ELSE PickFirst(lists, indices, i + 1, best)

RECURSIVE PickSmallest(_, _, _, _)
\* The inner loop of mergeSubLists: the first list, from list i on, whose
\* current element is smaller than that of best (0: none yet).
PickSmallest(lists, indices, i, best) ==
    IF i > Len(lists) THEN best
    ELSE IF indices[i] >= Len(lists[i]) THEN PickSmallest(lists, indices, i + 1, best)
    ELSE IF best = 0 \/ lists[i][indices[i] + 1] < lists[best][indices[best] + 1]
         THEN PickSmallest(lists, indices, i + 1, i)
         ELSE PickSmallest(lists, indices, i + 1, best)

RECURSIVE MergeLoop(_, _, _, _)
\* The outer loop of mergeSubLists: out is what was yielded so far.
MergeLoop(lists, indices, prevID, out) ==
    LET b == PickSmallest(lists, indices, 1, 0)
    IN  IF b = 0 THEN out
        ELSE LET smallest == lists[b][indices[b] + 1]
                 adv == [indices EXCEPT ![b] = @ + 1]
             IN  IF smallest # prevID
                 THEN MergeLoop(lists, adv, smallest, Append(out, smallest))
                 ELSE MergeLoop(lists, adv, prevID, out)

\* mergeSubLists, consumed to the end: the IDs in the order they are yielded.
mergeSubLists(lists) ==
    MergeLoop(lists, [i \in 1..Len(lists) |-> 0], 0, <<>>)

\* ------------------------------------------------------ the Hub's indexes

\* A Go map as a function with a finite domain.
EmptyMap == [x \in {} |-> <<>>]

MapPut(f, k, v) == [x \in (DOMAIN f) \cup {k} |-> IF x = k THEN v ELSE f[x]]

MapDel(f, k) == [x \in (DOMAIN f) \ {k} |-> f[x]]

\* The body of the closure of Hub.add for one pair (k, v), on indexKeyValue.
AddKeyValue(ikv, k, v, id) ==
    LET m1   == IF k \in DOMAIN ikv THEN ikv ELSE MapPut(ikv, k, EmptyMap)
        vals == IF v \in DOMAIN m1[k] THEN m1[k] ELSE MapPut(m1[k], v, <<>>)
    IN  MapPut(m1, k, MapPut(vals, v, SlAdd(vals[v], id)))

\* The body of the closure of Hub.add for one pair (k, v), on indexKey.
AddKey(ik, k, id) ==
    LET m1 == IF k \in DOMAIN ik THEN ik ELSE MapPut(ik, k, <<>>)
    IN  MapPut(m1, k, SlAdd(m1[k], id))

RECURSIVE AddPairs(_, _, _, _)
\* s.topic.Each in Hub.add, from pair i on; idx is [kv, key].
AddPairs(idx, topic, i, id) ==
    IF i > Len(topic) THEN idx
    ELSE AddPairs([kv  |-> AddKeyValue(idx.kv, topic[i].key, topic[i].value, id),
                   key |-> AddKey(idx.key, topic[i].key, id)],
                  topic, i + 1, id)

\* Hub.add on the four structures h = [all, kv, key, empty].
HubAdd(h, id, topic) ==
    LET idx == AddPairs([kv |-> h.kv, key |-> h.key], topic, 1, id)
    IN  [all   |-> SlAdd(h.all, id),
         kv    |-> idx.kv,
         key   |-> idx.key,
         empty |-> IF MapLen(topic) = 0 THEN SlAdd(h.empty, id) ELSE h.empty]

\* The exact-value half of the closure of Hub.Unsubscribe for one pair.
DelKeyValue(ikv, k, v, id) ==
    IF k \in DOMAIN ikv /\ v \in DOMAIN ikv[k]
    THEN LET sl == SlRemove(ikv[k][v], id)
         IN  IF SlLen(sl) = 0
             THEN MapPut(ikv, k, MapDel(ikv[k], v))
             ELSE MapPut(ikv, k, MapPut(ikv[k], v, sl))
    ELSE ikv

\* The wildcard half of the closure of Hub.Unsubscribe for one pair.
\* A removal from indexKey that keeps the bucket it has emptied.
DelKeyKeepsBucket(ik, k, id) ==
    IF k \in DOMAIN ik THEN MapPut(ik, k, SlRemove(ik[k], id)) ELSE ik

DelKey(ik, k, id) ==
    IF k \in DOMAIN ik
    THEN LET sl == SlRemove(ik[k], id)
         IN  IF SlLen(sl) = 0 THEN MapDel(ik, k) ELSE MapPut(ik, k, sl)
    ELSE ik

RECURSIVE DelPairs(_, _, _, _)
\* s.topic.Each in Hub.Unsubscribe, from pair i on.
DelPairs(idx, topic, i, id) ==
    IF i > Len(topic) THEN idx
    ELSE DelPairs([kv  |-> DelKeyValue(idx.kv, topic[i].key, topic[i].value, id),
                   key |-> DelKey(idx.key, topic[i].key, id)],
                  topic, i + 1, id)

\* HubUnsubscribe as it would be if an ID that is not found were taken for the
\* entry at the position the binary search stops at.
HubUnsubscribeNearest(h, id, topicOf) ==
    LET idx == Search(h.all, id) IN
    IF idx >= Len(h.all) THEN h
    ELSE LET sid   == h.all[idx + 1]
             topic == topicOf[sid]
             ix    == DelPairs([kv |-> h.kv, key |-> h.key], topic, 1, sid)
         IN  [all   |-> SlRemove(h.all, sid),
              kv    |-> ix.kv,
              key   |-> ix.key,
              empty |-> IF MapLen(topic) = 0 THEN SlRemove(h.empty, sid) ELSE h.empty]

\* The body of Hub.Unsubscribe under the write lock; topicOf gives s.topic.
\* An Unsubscribe that removes from the registry and leaves the indexes.
HubUnsubscribeRegistryOnly(h, id, topicOf) ==
    IF SlFind(h.all, id) = -1 THEN h
    ELSE [h EXCEPT !.all = SlRemove(h.all, id)]

HubUnsubscribe(h, id, topicOf) ==
    IF SlFind(h.all, id) = -1 THEN h
    ELSE LET topic == topicOf[h.all[SlFind(h.all, id) + 1]]
             idx   == DelPairs([kv |-> h.kv, key |-> h.key], topic, 1, id)
         IN  [all   |-> SlRemove(h.all, id),
              kv    |-> idx.kv,
              key   |-> idx.key,
              empty |-> IF MapLen(topic) = 0 THEN SlRemove(h.empty, id) ELSE h.empty]

\* The body of Hub.Clear: four fresh structures.
HubClear == [all |-> <<>>, kv |-> EmptyMap, key |-> EmptyMap, empty |-> <<>>]

RECURSIVE CandidatesExact(_, _, _, _)
\* Candidates as it would be without the lookup of the wildcard bucket
\* indexKeyValue[k][Any].
CandidatesExact(h, t, i, cands) ==
    IF i > Len(t) THEN cands
    ELSE LET k == t[i].key
             v == t[i].value
         IN  IF v = Any
             THEN CandidatesExact(h, t, i + 1,
                    IF k \in DOMAIN h.key THEN Append(cands, h.key[k]) ELSE cands)
             ELSE IF k \in DOMAIN h.kv /\ v \in DOMAIN h.kv[k]
             THEN CandidatesExact(h, t, i + 1, Append(cands, h.kv[k][v]))
             ELSE CandidatesExact(h, t, i + 1, cands)

RECURSIVE Candidates(_, _, _, _)
\* t.Each in Hub.match, from pair i on: the candidate sublists gathered.
Candidates(h, t, i, cands) ==
    IF i > Len(t) THEN cands
    ELSE LET k == t[i].key
             v == t[i].value
         IN  IF v = Any
             THEN Candidates(h, t, i + 1,
                    IF k \in DOMAIN h.key THEN Append(cands, h.key[k]) ELSE cands)
             ELSE IF k \in DOMAIN h.kv
             THEN LET c1 == IF v \in DOMAIN h.kv[k]
                            THEN Append(cands, h.kv[k][v]) ELSE cands
                      c2 == IF Any \in DOMAIN h.kv[k]
                            THEN Append(c1, h.kv[k][Any]) ELSE c1
                  IN  Candidates(h, t, i + 1, c2)
             ELSE Candidates(h, t, i + 1, cands)

\* The candidate lists of Hub.match, indexEmpty last when it is not empty.
CandidateLists(h, t) ==
    LET c == Candidates(h, t, 1, <<>>)
    IN  IF SlLen(h.empty) > 0 THEN Append(c, h.empty) ELSE c

RECURSIVE FilterMatch(_, _, _, _)
\* The range loop of Hub.match: the merged candidates that pass Topic.Match.
FilterMatch(ids, topicOf, t, i) ==
    IF i > Len(ids) THEN <<>>
    ELSE IF Match(topicOf[ids[i]], t)
         THEN <<ids[i]>> \o FilterMatch(ids, topicOf, t, i + 1)
         ELSE FilterMatch(ids, topicOf, t, i + 1)

\* Hub.match: the subscriptions handed to cb, in the order they are handed.
match(h, topicOf, t) ==
    FilterMatch(mergeSubLists(CandidateLists(h, t)), topicOf, t, 1)

\* ------------------------------------------------------------- the state

VARIABLES
    seq,            \* Hub.seq, the atomic ID counter
    all,            \* Hub.all
    indexKeyValue,  \* Hub.indexKeyValue
    indexKey,       \* Hub.indexKey
    indexEmpty,     \* Hub.indexEmpty
    subs,           \* the sub objects ever created: id -> [topic, once]
    counter,        \* sub.counter of each sub object
    rwWriter,       \* the RWMutex: "free", "pending" (a writer waits for the
                    \* readers to leave) or "held"
    rwReaders,      \* the RWMutex: the number of read locks held
    pc,             \* where each calling thread is
    thr,            \* the locals of each calling thread
    pubs,           \* one record per Publish call: the event, its WaitGroup,
                    \* its sync.Once, and what was delivered
    tasks,          \* the handler goroutines: <<publish, sub>> -> position
    invoked,        \* sub id -> how often its handler was entered
    panicked,       \* the process died on a runtime panic
    calls,          \* history: how many calls of each kind have completed,
                    \* counted only where a specification switches it on
    fn              \* one call of a function that needs no hub: its name,
                    \* its arguments, whether it returned, and its result

vars == <<seq, all, indexKeyValue, indexKey, indexEmpty, subs, counter,
          rwWriter, rwReaders, pc, thr, pubs, tasks, invoked, panicked, calls, fn>>

\* Everything but fn.
hubFrame == <<seq, all, indexKeyValue, indexKey, indexEmpty, subs, counter,
              rwWriter, rwReaders, pc, thr, pubs, tasks, invoked, panicked, calls>>

hubVars == <<all, indexKeyValue, indexKey, indexEmpty>>

lockVars == <<rwWriter, rwReaders>>

\* The four structures of the Hub as one value.
Hub == [all |-> all, kv |-> indexKeyValue, key |-> indexKey, empty |-> indexEmpty]

\* s.topic for every sub object.
TopicOf == [id \in DOMAIN subs |-> subs[id].topic]

SetHub(h) ==
    /\ all' = h.all
    /\ indexKeyValue' = h.kv
    /\ indexKey' = h.key
    /\ indexEmpty' = h.empty

\* A nil completion callback.
NilCb == "nil"

NoLocals == [pub |-> 0, id |-> 0, topic |-> <<>>, once |-> FALSE, outer |-> 0]

\* The history with counting switched off, and switched on.
NoTally == [on |-> FALSE, sub |-> 0, unsub |-> 0, unsubHit |-> 0,
            auto |-> 0, clear |-> 0, cleared |-> 0, clearSeqs |-> <<>>,
            ids |-> FALSE, asked |-> {}, gone |-> {}]

ZeroTally == [NoTally EXCEPT !.on = TRUE]

\* The history that records the IDs whose Unsubscribe has returned.
IdTally == [NoTally EXCEPT !.ids = TRUE]

\* An Unsubscribe(id) returns in the history c: asked holds every ID given
\* to an Unsubscribe, gone those that a Subscribe had issued before.
TallyGone(c, id) ==
    IF c.ids
    THEN [c EXCEPT !.asked = @ \cup {id},
                   !.gone = IF id \in DOMAIN subs THEN @ \cup {id} ELSE @]
    ELSE c

\* n more of kind f in the history c.
Tally(c, f, n) == IF c.on THEN [c EXCEPT ![f] = @ + n] ELSE c

\* A Clear completes in the history c: one more Clear, the subscriptions it
\* dropped, and the last ID issued before it.
TallyClear(c) ==
    IF c.on
    THEN [c EXCEPT !.clear = @ + 1, !.cleared = @ + SlLen(all),
                   !.clearSeqs = Append(@, seq)]
    ELSE c

\* 1 when the ID is in the registry, 0 when it is not.
Hit(id) == IF SlFind(all, id) = -1 THEN 0 ELSE 1

\* No function call.
NoCall == [op |-> "none", in |-> <<>>, done |-> FALSE, out |-> <<>>]

\* The call of op with the arguments in, not yet returned.
Call(op, in) == [op |-> op, in |-> in, done |-> FALSE, out |-> <<>>]

\* The call c has returned out.
Return(c, out) == [c EXCEPT !.done = TRUE, !.out = out]

\* New(): empty structures, seq 0; every thread is outside the hub.
NewHub(T, c) ==
    /\ seq = 0
    /\ all = <<>>
    /\ indexKeyValue = EmptyMap
    /\ indexKey = EmptyMap
    /\ indexEmpty = <<>>
    /\ subs = EmptyMap
    /\ counter = EmptyMap
    /\ rwWriter = "free"
    /\ rwReaders = 0
    /\ pc = [t \in T |-> "idle"]
    /\ thr = [t \in T |-> NoLocals]
    /\ pubs = <<>>
    /\ tasks = EmptyMap
    /\ invoked = EmptyMap
    /\ panicked = FALSE
    /\ calls = c

InitWith(T, c) == NewHub(T, c) /\ fn = NoCall

InitFor(T) == InitWith(T, NoTally)

\* ------------------------------------------------- Event and its modifiers

\* Memory for Events: the Event structs by address, and the backing arrays
\* of their onFinish slices by address. A slice is an array address (0 for
\* nil), a length and a capacity.
EmptyMem == [ev |-> <<>>, arr |-> <<>>]

NilSlice == [arr |-> 0, len |-> 0, cap |-> 0]

\* &Event{topic: t}
ZeroEvent(t) ==
    [topic |-> t, payload |-> "nil", onFinish |-> NilSlice, wait |-> FALSE, sync |-> FALSE]

\* The elements of the slice sl.
Elems(mem, sl) == IF sl.len = 0 THEN <<>> ELSE SubSeq(mem.arr[sl.arr], 1, sl.len)

RECURSIVE Zeroed(_)
\* n zero-valued (nil) elements.
Zeroed(n) == IF n <= 0 THEN <<>> ELSE <<NilCb>> \o Zeroed(n - 1)

\* A new backing array of capacity c that starts with xs.
NewArray(xs, c) == xs \o Zeroed(c - Len(xs))

\* slices.Clone(sl), append(sl[:0:0], sl...): nothing is allocated for an
\* empty sl; otherwise a new array of the capacity c the allocator chose.
slicesClone(mem, sl, c) ==
    IF sl.len = 0
    THEN [mem |-> mem, sl |-> [sl EXCEPT !.cap = 0]]
    ELSE [mem |-> [mem EXCEPT !.arr = Append(@, NewArray(Elems(mem, sl), c))],
          sl  |-> [arr |-> Len(mem.arr) + 1, len |-> sl.len, cap |-> c]]

\* append(sl, x): in place while the capacity lasts, otherwise into a new
\* array of the capacity c the allocator chose.
append(mem, sl, x, c) ==
    IF sl.len < sl.cap
    THEN [mem |-> [mem EXCEPT !.arr[sl.arr][sl.len + 1] = x],
          sl  |-> [sl EXCEPT !.len = @ + 1]]
    ELSE [mem |-> [mem EXCEPT !.arr = Append(@, NewArray(Append(Elems(mem, sl), x), c))],
          sl  |-> [arr |-> Len(mem.arr) + 1, len |-> sl.len + 1, cap |-> c]]

\* clone as it would be if the onFinish slice were copied by assignment.
cloneShared(mem, e, c) ==
    [mem |-> [mem EXCEPT !.ev = Append(@, mem.ev[e])], ret |-> Len(mem.ev) + 1]

\* Event.clone: a new struct with the fields of e and a clone of its
\* onFinish slice; ret is the new Event's address.
clone(mem, e, c) ==
    LET cl == slicesClone(mem, mem.ev[e].onFinish, c)
    IN  [mem |-> [cl.mem EXCEPT !.ev = Append(@, [mem.ev[e] EXCEPT !.onFinish = cl.sl])],
         ret |-> Len(mem.ev) + 1]

\* n := e.clone(); n.<field> = v; return n
WithField(mem, e, field, v, c) ==
    LET n == clone(mem, e, c) IN [n EXCEPT !.mem.ev[n.ret][field] = v]

WithTopic(mem, e, topic, c) == WithField(mem, e, "topic", topic, c)

WithPayload(mem, e, payload, c) == WithField(mem, e, "payload", payload, c)

WithWait(mem, e, v, c) == WithField(mem, e, "wait", v, c)

WithSync(mem, e, v, c) == WithField(mem, e, "sync", v, c)

\* n := e.clone(); n.onFinish = append(n.onFinish, cb); return n
WithOnFinish(mem, e, cb, c, c2) ==
    LET n == clone(mem, e, c)
        ap == append(n.mem, n.mem.ev[n.ret].onFinish, cb, c2)
    IN  [mem |-> [ap.mem EXCEPT !.ev[n.ret].onFinish = ap.sl], ret |-> n.ret]

\* optionPublishOnFinish.modifyEvent: a nil callback returns e itself.
OnFinish(mem, e, cb, c, c2) ==
    IF cb = NilCb THEN [mem |-> mem, ret |-> e] ELSE WithOnFinish(mem, e, cb, c, c2)

\* ------------------------------------------------------------ sync.RWMutex

\* RWMutex.Lock is callable: no other writer holds or awaits the lock.
CanLock == rwWriter = "free"

\* RWMutex.Lock: the writer announces itself and has the lock at once when no
\* reader holds it; otherwise it waits for the readers to leave.
LockCall == rwWriter' = (IF rwReaders = 0 THEN "held" ELSE "pending")

\* The position after Lock(): inside, or waiting for the readers.
\* A Lock that returns without waiting for the readers to leave.
AfterLockIgnoresReaders(locked, waiting) == locked

AfterLock(locked, waiting) == IF rwReaders = 0 THEN locked ELSE waiting

\* The last reader left: the pending writer gets the lock.
\* A lock that hands itself to a waiting writer while readers hold it.
CanWakeIgnoresReaders == rwWriter = "pending"

CanWake == rwWriter = "pending" /\ rwReaders = 0

\* CanRLock as it would be if RLock ignored the writers.
RLockIgnoresWriter == TRUE

\* RWMutex.RLock does not block: no writer holds or awaits the lock.
CanRLock == rwWriter = "free"

\* ------------------------------------------------------- sub.call and event

\* Skips as it would be if the guard let the second call through.
SkipsFromThird(s, c) == subs[s].once /\ c > 2

\* sub.call's guard: the handler is skipped for a once-subscription whose
\* counter, after the increment, is above 1.
Skips(s, c) == subs[s].once /\ c > 1

\* shouldRemove as it would be if it held only from the second call on.
shouldRemoveAfterSecond(s, c) == subs[s].once /\ c > 1

\* sub.shouldRemove, read after the counter has the value c.
shouldRemove(s, c) == subs[s].once /\ c > 0

\* event.finish: the callbacks that run, in order; nil ones are skipped.
finish(fin) == SelectSeq(fin, LAMBDA cb : cb # NilCb)

\* ModeOf as it would be if wait were looked at before sync.
ModeOfWaitFirst(sync, wait, fin) ==
    IF wait THEN "wait"
    ELSE IF sync THEN "sync"
    ELSE IF Len(fin) > 0 THEN "finish"
    ELSE "nowait"

\* Hub.Publish: the mode chosen from the flags.
ModeOf(sync, wait, fin) ==
    IF sync THEN "sync"
    ELSE IF wait THEN "wait"
    ELSE IF Len(fin) > 0 THEN "finish"
    ELSE "nowait"

\* ------------------------------------------- Subscribe, Unsubscribe, Clear, Len

\* Where a call of thread t returns to: into the handler that made it (outer
\* is the Publish call that handler belongs to), or out of the hub.
ReturnPc(t) == IF thr[t].outer # 0 THEN "pub_handler" ELSE "idle"

\* The locals of thread t after the return of its call.
ReturnLocals(t) ==
    IF thr[t].outer # 0 THEN [NoLocals EXCEPT !.pub = thr[t].outer] ELSE NoLocals

\* The locals of thread t at the start of a call.
CallLocals(t) == [NoLocals EXCEPT !.outer = thr[t].outer]

\* Subscribe calls that hold or await the write lock.
SubscribesInFlight == Cardinality({t \in DOMAIN pc : pc[t] \in {"sub_wait", "sub_locked"}})

\* Hub.Subscribe up to h.Lock(): the handler conversion succeeded.
CallSubscribe(t, topic, once, maxSubs) ==
    /\ ~panicked
    /\ pc[t] \in {"idle", "h_sub"}
    /\ seq + SubscribesInFlight < maxSubs
    /\ CanLock
    /\ LockCall
    /\ pc' = [pc EXCEPT ![t] = AfterLock("sub_locked", "sub_wait")]
    /\ thr' = [thr EXCEPT ![t] = [CallLocals(t) EXCEPT !.topic = topic, !.once = once]]
    /\ UNCHANGED <<seq, hubVars, subs, counter, rwReaders, pubs, tasks, invoked, panicked>>
    /\ UNCHANGED <<calls, fn>>

\* The ID as it would be if it were taken from the registry's length.
NextSubIDFromLen == SlLen(all) + 1

\* SubID(h.seq.Add(1)): the next value of the hub's counter.
NextSubID == seq + 1

\* Hub.Subscribe under the lock: the new ID, the options, Hub.add, Unlock.
SubscribeBody(t) ==
    /\ ~panicked
    /\ pc[t] = "sub_locked"
    /\ LET id == NextSubID
       IN  /\ seq' = id
           /\ subs' = MapPut(subs, id, [topic |-> thr[t].topic, once |-> thr[t].once])
           /\ counter' = MapPut(counter, id, 0)
           /\ invoked' = MapPut(invoked, id, 0)
           /\ SetHub(HubAdd(Hub, id, thr[t].topic))
    /\ rwWriter' = "free"
    /\ pc' = [pc EXCEPT ![t] = ReturnPc(t)]
    /\ thr' = [thr EXCEPT ![t] = ReturnLocals(t)]
    /\ UNCHANGED <<rwReaders, pubs, tasks, panicked>>
    /\ calls' = Tally(calls, "sub", 1)
    /\ UNCHANGED fn

\* Hub.Unsubscribe up to h.Lock().
CallUnsubscribe(t, id) ==
    /\ ~panicked
    /\ pc[t] \in {"idle", "h_unsub"}
    /\ CanLock
    /\ LockCall
    /\ pc' = [pc EXCEPT ![t] = AfterLock("unsub_locked", "unsub_wait")]
    /\ thr' = [thr EXCEPT ![t] = [CallLocals(t) EXCEPT !.id = id]]
    /\ UNCHANGED <<seq, hubVars, subs, counter, rwReaders, pubs, tasks, invoked, panicked>>
    /\ UNCHANGED <<calls, fn>>

\* Hub.Unsubscribe under the lock, and Unlock.
UnsubscribeBody(t) ==
    /\ ~panicked
    /\ pc[t] = "unsub_locked"
    /\ SetHub(HubUnsubscribe(Hub, thr[t].id, TopicOf))
    /\ rwWriter' = "free"
    /\ pc' = [pc EXCEPT ![t] = ReturnPc(t)]
    /\ thr' = [thr EXCEPT ![t] = ReturnLocals(t)]
    /\ UNCHANGED <<seq, subs, counter, rwReaders, pubs, tasks, invoked, panicked>>
    /\ calls' = TallyGone(Tally(Tally(calls, "unsub", 1), "unsubHit", Hit(thr[t].id)),
                           thr[t].id)
    /\ UNCHANGED fn

\* Hub.Clear up to h.Lock().
CallClear(t) ==
    /\ ~panicked
    /\ pc[t] \in {"idle", "h_clear"}
    /\ CanLock
    /\ LockCall
    /\ pc' = [pc EXCEPT ![t] = AfterLock("clear_locked", "clear_wait")]
    /\ thr' = [thr EXCEPT ![t] = CallLocals(t)]
    /\ UNCHANGED <<seq, hubVars, subs, counter, rwReaders, pubs, tasks, invoked, panicked>>
    /\ UNCHANGED <<calls, fn>>

\* ClearBody as it would be if only the registry h.all were replaced.
ClearBodyKeepsIndexes(t) ==
    /\ ~panicked
    /\ pc[t] = "clear_locked"
    /\ SetHub([Hub EXCEPT !.all = <<>>])
    /\ rwWriter' = "free"
    /\ pc' = [pc EXCEPT ![t] = "idle"]
    /\ UNCHANGED <<seq, subs, counter, rwReaders, thr, pubs, tasks, invoked, panicked>>
    /\ calls' = TallyClear(calls)
    /\ UNCHANGED fn

\* ClearBody as it would be if the registry h.all were kept.
ClearBodyKeepsAll(t) ==
    /\ ~panicked
    /\ pc[t] = "clear_locked"
    /\ SetHub([HubClear EXCEPT !.all = all])
    /\ rwWriter' = "free"
    /\ pc' = [pc EXCEPT ![t] = "idle"]
    /\ UNCHANGED <<seq, subs, counter, rwReaders, thr, pubs, tasks, invoked, panicked>>
    /\ calls' = TallyClear(calls)
    /\ UNCHANGED fn

\* Hub.Clear under the lock, and Unlock.
\* A Clear that also starts the IDs again from 1.
ClearBodyResetsSeq(t) ==
    /\ ~panicked
    /\ pc[t] = "clear_locked"
    /\ SetHub(HubClear)
    /\ rwWriter' = "free"
    /\ pc' = [pc EXCEPT ![t] = ReturnPc(t)]
    /\ thr' = [thr EXCEPT ![t] = ReturnLocals(t)]
    /\ seq' = 0
    /\ UNCHANGED <<subs, counter, rwReaders, pubs, tasks, invoked, panicked>>
    /\ calls' = TallyClear(calls)
    /\ UNCHANGED fn

ClearBody(t) ==
    /\ ~panicked
    /\ pc[t] = "clear_locked"
    /\ SetHub(HubClear)
    /\ rwWriter' = "free"
    /\ pc' = [pc EXCEPT ![t] = ReturnPc(t)]
    /\ thr' = [thr EXCEPT ![t] = ReturnLocals(t)]
    /\ UNCHANGED <<seq, subs, counter, rwReaders, pubs, tasks, invoked, panicked>>
    /\ calls' = TallyClear(calls)
    /\ UNCHANGED fn

\* Where a thread that waited for the write lock continues.
LockedPc(w) ==
    CASE w = "sub_wait" -> "sub_locked"
      [] w = "unsub_wait" -> "unsub_locked"
      [] w = "clear_wait" -> "clear_locked"
      [] w = "pub_unsub_wait" -> "pub_unsub_locked"

\* The readers have left: the thread that waits in Lock() gets the lock.
WakeWriter(t) ==
    /\ ~panicked
    /\ pc[t] \in {"sub_wait", "unsub_wait", "clear_wait", "pub_unsub_wait"}
    /\ CanWake
    /\ rwWriter' = "held"
    /\ pc' = [pc EXCEPT ![t] = LockedPc(pc[t])]
    /\ UNCHANGED <<seq, hubVars, subs, counter, rwReaders, thr, pubs, tasks, invoked, panicked>>
    /\ UNCHANGED <<calls, fn>>

\* Hub.Len up to h.RLock().
CallLen(t) ==
    /\ ~panicked
    /\ pc[t] = "idle"
    /\ CanRLock
    /\ rwReaders' = rwReaders + 1
    /\ pc' = [pc EXCEPT ![t] = "len_locked"]
    /\ UNCHANGED <<seq, hubVars, subs, counter, rwWriter, thr, pubs, tasks, invoked, panicked>>
    /\ UNCHANGED <<calls, fn>>

\* Hub.Len: h.all.len() is read, RUnlock.
LenReturn(t) ==
    /\ ~panicked
    /\ pc[t] = "len_locked"
    /\ rwReaders' = rwReaders - 1
    /\ pc' = [pc EXCEPT ![t] = "idle"]
    /\ UNCHANGED <<seq, hubVars, subs, counter, rwWriter, thr, pubs, tasks, invoked, panicked>>
    /\ UNCHANGED <<calls, fn>>

\* ------------------------------------------------------------------ Publish

\* Hub.Publish up to the end of Hub.match's gathering: the event is built
\* from the options, the mode is chosen, the read lock is taken and the
\* matching subscriptions are found.  queue holds those not yet handed to cb.
CallPublish(t, topic, sync, wait, fin, maxPubs) ==
    /\ ~panicked
    /\ pc[t] \in {"idle", "h_pub"}
    /\ Len(pubs) < maxPubs
    /\ CanRLock
    /\ rwReaders' = rwReaders + 1
    /\ LET m == match(Hub, TopicOf, topic)
       IN  pubs' = Append(pubs,
                [topic    |-> topic,
                 fin      |-> fin,
                 mode     |-> ModeOf(sync, wait, fin),
                 matched  |-> m,
                 queue    |-> m,
                 wg       |-> 0,
                 waiter   |-> "none",
                 once     |-> "new",
                 log      |-> <<>>,
                 retd     |-> {},
                 errs     |-> {},
                 finLog   |-> <<>>,
                 unsub    |-> <<>>,
                 bg       |-> "none",
                 returned |-> FALSE,
                 clears   |-> calls.clear,
                 asked    |-> calls.asked,
                 gone     |-> calls.gone])
    /\ pc' = [pc EXCEPT ![t] = "pub_iter"]
    /\ thr' = [thr EXCEPT ![t] = [CallLocals(t) EXCEPT !.pub = Len(pubs) + 1]]
    /\ UNCHANGED <<seq, hubVars, subs, counter, rwWriter, tasks, invoked, panicked>>
    /\ UNCHANGED <<calls, fn>>

\* publishEventSync, cb for the next match: s.call increments the counter
\* and enters the handler on the publishing thread, or skips it.
PubSyncCall(t) ==
    LET p == thr[t].pub IN
    /\ ~panicked
    /\ pc[t] = "pub_iter"
    /\ pubs[p].mode = "sync"
    /\ pubs[p].queue # <<>>
    /\ LET s == Head(pubs[p].queue)
           c == counter[s] + 1
       IN  /\ counter' = [counter EXCEPT ![s] = c]
           /\ IF Skips(s, c)
              THEN /\ pubs' = [pubs EXCEPT ![p].queue = Tail(@),
                                           ![p].retd = @ \cup {s},
                                           ![p].unsub = IF shouldRemove(s, c)
                                                        THEN Append(@, s) ELSE @]
                   /\ UNCHANGED <<pc, invoked>>
              ELSE /\ pubs' = [pubs EXCEPT ![p].log = Append(@, s)]
                   /\ invoked' = [invoked EXCEPT ![s] = @ + 1]
                   /\ pc' = [pc EXCEPT ![t] = "pub_handler"]
    /\ UNCHANGED <<seq, hubVars, subs, lockVars, thr, tasks, panicked>>
    /\ UNCHANGED <<calls, fn>>

\* PubSyncReturns as it would be if an error ended the delivery: the
\* matches not yet handed to cb are dropped.
PubSyncReturnsStopsOnError(t, err) ==
    LET p == thr[t].pub IN
    /\ ~panicked
    /\ pc[t] = "pub_handler"
    /\ LET s == Head(pubs[p].queue)
       IN  pubs' = [pubs EXCEPT ![p].queue = IF err THEN <<>> ELSE Tail(@),
                                ![p].retd = @ \cup {s},
                                ![p].errs = IF err THEN @ \cup {s} ELSE @,
                                ![p].unsub = IF shouldRemove(s, counter[s])
                                             THEN Append(@, s) ELSE @]
    /\ pc' = [pc EXCEPT ![t] = "pub_iter"]
    /\ UNCHANGED <<seq, hubVars, subs, counter, lockVars, thr, tasks, invoked, panicked>>
    /\ UNCHANGED <<calls, fn>>

\* publishEventSync: the handler returns nil or an error (err), s.call
\* returns it and `_ = s.call(ctx, e)` drops it; shouldRemove is asked.  errs
\* remembers the subscriptions whose handler returned an error.
PubSyncReturns(t, err) ==
    LET p == thr[t].pub IN
    /\ ~panicked
    /\ pc[t] = "pub_handler"
    /\ LET s == Head(pubs[p].queue)
       IN  pubs' = [pubs EXCEPT ![p].queue = Tail(@),
                                ![p].retd = @ \cup {s},
                                ![p].errs = IF err THEN @ \cup {s} ELSE @,
                                ![p].unsub = IF shouldRemove(s, counter[s])
                                             THEN Append(@, s) ELSE @]
    /\ pc' = [pc EXCEPT ![t] = "pub_iter"]
    /\ UNCHANGED <<seq, hubVars, subs, counter, lockVars, thr, tasks, invoked, panicked>>
    /\ UNCHANGED <<calls, fn>>

\* publishEventSync: the handler returns nil.
PubSyncReturn(t) == PubSyncReturns(t, FALSE)

\* The positions of a handler that is about to call the hub.
HandlerCallPcs == {"h_sub", "h_unsub", "h_clear", "h_pub"}

\* The handler that the synchronous Publish runs on thread t calls the hub
\* itself: Subscribe, Unsubscribe, Clear or Publish (h), one level deep.
HandlerCalls(t, h) ==
    /\ ~panicked
    /\ pc[t] = "pub_handler"
    /\ thr[t].outer = 0
    /\ pc' = [pc EXCEPT ![t] = h]
    /\ thr' = [thr EXCEPT ![t].outer = thr[t].pub]
    /\ UNCHANGED <<seq, hubVars, subs, counter, lockVars, pubs, tasks, invoked, panicked>>
    /\ UNCHANGED <<calls, fn>>

\* PubSyncEnd as it would be without the call of e.finish.
PubSyncEndNoFinish(t) ==
    LET p == thr[t].pub IN
    /\ ~panicked
    /\ pc[t] = "pub_iter"
    /\ pubs[p].mode = "sync"
    /\ pubs[p].queue = <<>>
    /\ rwReaders' = rwReaders - 1
    /\ pubs' = [pubs EXCEPT ![p].returned = (pubs[p].unsub = <<>>)]
    /\ pc' = [pc EXCEPT ![t] = IF pubs[p].unsub = <<>> THEN "idle" ELSE "pub_unsub"]
    /\ thr' = [thr EXCEPT ![t] = IF pubs[p].unsub = <<>> THEN NoLocals ELSE @]
    /\ UNCHANGED <<seq, hubVars, subs, counter, rwWriter, tasks, invoked, panicked>>
    /\ UNCHANGED <<calls, fn>>

\* publishEventSync after match: RUnlock, e.finish, then the unsub loop.
PubSyncEnd(t) ==
    LET p == thr[t].pub IN
    /\ ~panicked
    /\ pc[t] = "pub_iter"
    /\ pubs[p].mode = "sync"
    /\ pubs[p].queue = <<>>
    /\ rwReaders' = rwReaders - 1
    /\ pubs' = [pubs EXCEPT ![p].finLog = @ \o finish(pubs[p].fin),
                            ![p].returned = (pubs[p].unsub = <<>>)]
    /\ pc' = [pc EXCEPT ![t] = IF pubs[p].unsub = <<>> THEN ReturnPc(t) ELSE "pub_unsub"]
    /\ thr' = [thr EXCEPT ![t] = IF pubs[p].unsub = <<>> THEN ReturnLocals(t) ELSE @]
    /\ UNCHANGED <<seq, hubVars, subs, counter, rwWriter, tasks, invoked, panicked>>
    /\ UNCHANGED <<calls, fn>>

\* publishEventSync, the unsub loop: h.Unsubscribe up to h.Lock().
PubUnsubLock(t) ==
    /\ ~panicked
    /\ pc[t] = "pub_unsub"
    /\ CanLock
    /\ LockCall
    /\ pc' = [pc EXCEPT ![t] = AfterLock("pub_unsub_locked", "pub_unsub_wait")]
    /\ UNCHANGED <<seq, hubVars, subs, counter, rwReaders, thr, pubs, tasks, invoked, panicked>>
    /\ UNCHANGED <<calls, fn>>

\* publishEventSync, the unsub loop: h.Unsubscribe under the lock; after the
\* last one Publish returns.
PubUnsubBody(t) ==
    LET p == thr[t].pub
        last == Len(pubs[p].unsub) = 1
    IN
    /\ ~panicked
    /\ pc[t] = "pub_unsub_locked"
    /\ SetHub(HubUnsubscribe(Hub, Head(pubs[p].unsub), TopicOf))
    /\ rwWriter' = "free"
    /\ pubs' = [pubs EXCEPT ![p].unsub = Tail(@), ![p].returned = last]
    /\ pc' = [pc EXCEPT ![t] = IF last THEN ReturnPc(t) ELSE "pub_unsub"]
    /\ thr' = [thr EXCEPT ![t] = IF last THEN ReturnLocals(t) ELSE @]
    /\ UNCHANGED <<seq, subs, counter, rwReaders, tasks, invoked, panicked>>
    /\ calls' = TallyGone(Tally(calls, "auto", Hit(Head(pubs[p].unsub))),
                           Head(pubs[p].unsub))
    /\ UNCHANGED fn

\* The three asynchronous modes, cb for the next match: wg.Add(1) where the
\* mode has a WaitGroup, and the go statement.
PubLaunch(t) ==
    LET p == thr[t].pub IN
    /\ ~panicked
    /\ pc[t] = "pub_iter"
    /\ pubs[p].mode # "sync"
    /\ pubs[p].queue # <<>>
    /\ LET s == Head(pubs[p].queue)
       IN  /\ pubs' = [pubs EXCEPT ![p].queue = Tail(@),
                                   ![p].wg = IF pubs[p].mode = "nowait" THEN @ ELSE @ + 1]
           /\ tasks' = MapPut(tasks, <<p, s>>, "start")
    /\ UNCHANGED <<seq, hubVars, subs, counter, lockVars, pc, thr, invoked, panicked>>
    /\ UNCHANGED <<calls, fn>>

\* PubAsyncUnlock as it would be if callback mode waited for its WaitGroup
\* before returning.
PubAsyncUnlockWaits(t) ==
    LET p == thr[t].pub
        m == pubs[p].mode
    IN
    /\ ~panicked
    /\ pc[t] = "pub_iter"
    /\ m # "sync"
    /\ pubs[p].queue = <<>>
    /\ pubs[p].wg = 0
    /\ rwReaders' = rwReaders - 1
    /\ pubs' = [pubs EXCEPT ![p].returned = (m # "wait"),
                            ![p].bg = IF m = "finish" /\ Len(pubs[p].matched) = 0
                                      THEN "pending" ELSE @]
    /\ pc' = [pc EXCEPT ![t] = IF m = "wait" THEN "pub_wait" ELSE "idle"]
    /\ thr' = [thr EXCEPT ![t] = IF m = "wait" THEN @ ELSE NoLocals]
    /\ UNCHANGED <<seq, hubVars, subs, counter, rwWriter, tasks, invoked, panicked>>
    /\ UNCHANGED <<calls, fn>>

\* PubAsyncUnlock as it would be if the read lock were left to the handler
\* goroutines: no RUnlock.
PubAsyncUnlockKeepsLock(t) ==
    LET p == thr[t].pub
        m == pubs[p].mode
    IN
    /\ ~panicked
    /\ pc[t] = "pub_iter"
    /\ m # "sync"
    /\ pubs[p].queue = <<>>
    /\ pubs' = [pubs EXCEPT ![p].returned = (m # "wait"),
                            ![p].bg = IF m = "finish" /\ Len(pubs[p].matched) = 0
                                      THEN "pending" ELSE @]
    /\ pc' = [pc EXCEPT ![t] = IF m = "wait" THEN "pub_wait" ELSE "idle"]
    /\ thr' = [thr EXCEPT ![t] = IF m = "wait" THEN @ ELSE NoLocals]
    /\ UNCHANGED <<seq, hubVars, subs, counter, lockVars, tasks, invoked, panicked>>
    /\ UNCHANGED <<calls, fn>>

\* The three asynchronous modes after match: RUnlock; wait mode goes on to
\* wg.Wait, the other two return (callback mode starts `go e.finish` when
\* nothing matched).
PubAsyncUnlock(t) ==
    LET p == thr[t].pub
        m == pubs[p].mode
    IN
    /\ ~panicked
    /\ pc[t] = "pub_iter"
    /\ m # "sync"
    /\ pubs[p].queue = <<>>
    /\ rwReaders' = rwReaders - 1
    /\ pubs' = [pubs EXCEPT ![p].returned = (m # "wait"),
                            ![p].bg = IF m = "finish" /\ Len(pubs[p].matched) = 0
                                      THEN "pending" ELSE @]
    /\ pc' = [pc EXCEPT ![t] = IF m = "wait" THEN "pub_wait" ELSE ReturnPc(t)]
    /\ thr' = [thr EXCEPT ![t] = IF m = "wait" THEN @ ELSE ReturnLocals(t)]
    /\ UNCHANGED <<seq, hubVars, subs, counter, rwWriter, tasks, invoked, panicked>>
    /\ UNCHANGED <<calls, fn>>

\* PubWaitDone as it would be without wg.Wait.
PubWaitDoneNoWait(t) ==
    LET p == thr[t].pub IN
    /\ ~panicked
    /\ pc[t] = "pub_wait"
    /\ pubs' = [pubs EXCEPT ![p].finLog = @ \o finish(pubs[p].fin),
                            ![p].returned = TRUE]
    /\ pc' = [pc EXCEPT ![t] = "idle"]
    /\ thr' = [thr EXCEPT ![t] = NoLocals]
    /\ UNCHANGED <<seq, hubVars, subs, counter, lockVars, tasks, invoked, panicked>>
    /\ UNCHANGED <<calls, fn>>

\* publishEventAsyncWait: wg.Wait returns, e.finish runs, Publish returns.
PubWaitDone(t) ==
    LET p == thr[t].pub IN
    /\ ~panicked
    /\ pc[t] = "pub_wait"
    /\ pubs[p].wg = 0
    /\ pubs' = [pubs EXCEPT ![p].finLog = @ \o finish(pubs[p].fin),
                            ![p].returned = TRUE]
    /\ pc' = [pc EXCEPT ![t] = ReturnPc(t)]
    /\ thr' = [thr EXCEPT ![t] = ReturnLocals(t)]
    /\ UNCHANGED <<seq, hubVars, subs, counter, lockVars, tasks, invoked, panicked>>
    /\ UNCHANGED <<calls, fn>>

\* publishEventAsyncNoWaitFinish with n = 0: the goroutine of `go e.finish`.
BgFinish(p) ==
    /\ ~panicked
    /\ pubs[p].bg = "pending"
    /\ pubs' = [pubs EXCEPT ![p].finLog = @ \o finish(pubs[p].fin),
                            ![p].bg = "done"]
    /\ UNCHANGED <<seq, hubVars, subs, counter, lockVars, pc, thr, tasks, invoked, panicked>>
    /\ UNCHANGED <<calls, fn>>

\* ------------------------------------------------------ handler goroutines

\* The goroutine after s.call and the completion bookkeeping: it goes on to
\* h.Unsubscribe when shouldRemove says so, and ends otherwise.
AfterCall(p, s) ==
    IF shouldRemove(s, counter[s])
    THEN [tasks EXCEPT ![<<p, s>>] = "unsub"]
    ELSE MapDel(tasks, <<p, s>>)

\* s.call in a goroutine: the counter is incremented and the handler is
\* entered, or skipped (s.call returns nil at once).
TaskCall(p, s) ==
    /\ ~panicked
    /\ <<p, s>> \in DOMAIN tasks
    /\ tasks[<<p, s>>] = "start"
    /\ LET c == counter[s] + 1
       IN  /\ counter' = [counter EXCEPT ![s] = c]
           /\ IF Skips(s, c)
              THEN /\ tasks' = [tasks EXCEPT ![<<p, s>>] = "skipped"]
                   /\ UNCHANGED invoked
              ELSE /\ tasks' = [tasks EXCEPT ![<<p, s>>] = "handler"]
                   /\ invoked' = [invoked EXCEPT ![s] = @ + 1]
    /\ UNCHANGED <<seq, hubVars, subs, lockVars, pc, thr, pubs, panicked>>
    /\ UNCHANGED <<calls, fn>>

\* s.call returns in its goroutine (the handler returned, or was skipped),
\* then wg.Done() in the two modes with a WaitGroup: the Done that brings the
\* counter to 0 releases a goroutine blocked in wg.Wait.  Wait mode and
\* fire-and-forget then ask shouldRemove, callback mode goes on to once.Do.
\* The handler may return an error (err); a skipped call returns nil.  The
\* goroutine drops what s.call returns (`_ = s.call(ctx, e)`); errs remembers
\* the subscriptions whose handler returned an error.
TaskReturns(p, s, err) ==
    /\ ~panicked
    /\ <<p, s>> \in DOMAIN tasks
    /\ tasks[<<p, s>>] \in {"handler", "skipped"}
    /\ err => tasks[<<p, s>>] = "handler"
    /\ CASE pubs[p].mode = "nowait" ->
              /\ tasks' = AfterCall(p, s)
              /\ pubs' = [pubs EXCEPT ![p].retd = @ \cup {s},
                                      ![p].errs = IF err THEN @ \cup {s} ELSE @]
         [] pubs[p].mode = "wait" ->
              /\ tasks' = AfterCall(p, s)
              /\ pubs' = [pubs EXCEPT ![p].retd = @ \cup {s}, ![p].wg = @ - 1,
                                      ![p].errs = IF err THEN @ \cup {s} ELSE @]
         [] pubs[p].mode = "finish" ->
              /\ tasks' = [tasks EXCEPT ![<<p, s>>] = "once"]
              /\ pubs' = [pubs EXCEPT ![p].retd = @ \cup {s},
                                      ![p].errs = IF err THEN @ \cup {s} ELSE @,
                                      ![p].wg = @ - 1,
                                      ![p].waiter = IF pubs[p].wg = 1 /\ @ = "waiting"
                                                    THEN "released" ELSE @]
    /\ UNCHANGED <<seq, hubVars, subs, counter, lockVars, pc, thr, invoked, panicked>>
    /\ UNCHANGED <<calls, fn>>

\* s.call returns nil in its goroutine.
TaskReturn(p, s) == TaskReturns(p, s, FALSE)

\* once.Do in callback mode.  The first goroutine to arrive runs the function:
\* wg.Wait returns at once when the counter is 0, and then e.finish runs;
\* otherwise the goroutine sleeps in wg.Wait.  A goroutine that arrives while
\* the function runs blocks until it is over; one that arrives later goes on.
TaskOnce(p, s) ==
    /\ ~panicked
    /\ <<p, s>> \in DOMAIN tasks
    /\ tasks[<<p, s>>] = "once"
    /\ pubs[p].once # "running"
    /\ IF pubs[p].once = "done"
       THEN /\ tasks' = AfterCall(p, s)
            /\ UNCHANGED pubs
       ELSE IF pubs[p].wg = 0
       THEN /\ tasks' = AfterCall(p, s)
            /\ pubs' = [pubs EXCEPT ![p].once = "done",
                                    ![p].finLog = @ \o finish(pubs[p].fin)]
       ELSE /\ tasks' = [tasks EXCEPT ![<<p, s>>] = "oncewait"]
            /\ pubs' = [pubs EXCEPT ![p].once = "running", ![p].waiter = "waiting"]
    /\ UNCHANGED <<seq, hubVars, subs, counter, lockVars, pc, thr, invoked, panicked>>
    /\ UNCHANGED <<calls, fn>>

\* The goroutine sleeping in wg.Wait was released and runs again: with the
\* counter raised in between by a wg.Add of the publisher, Wait panics
\* ("WaitGroup is reused before previous Wait has returned") and the process
\* dies; otherwise Wait returns, e.finish runs and once.Do is over.
TaskOnceWake(p, s) ==
    /\ ~panicked
    /\ <<p, s>> \in DOMAIN tasks
    /\ tasks[<<p, s>>] = "oncewait"
    /\ pubs[p].waiter = "released"
    /\ IF pubs[p].wg # 0
       THEN /\ panicked' = TRUE
            /\ UNCHANGED <<tasks, pubs>>
       ELSE /\ tasks' = AfterCall(p, s)
            /\ pubs' = [pubs EXCEPT ![p].once = "done",
                                    ![p].waiter = "none",
                                    ![p].finLog = @ \o finish(pubs[p].fin)]
            /\ UNCHANGED panicked
    /\ UNCHANGED <<seq, hubVars, subs, counter, lockVars, pc, thr, invoked>>
    /\ UNCHANGED <<calls, fn>>

\* h.Unsubscribe(ctx, s.id) in a goroutine, up to h.Lock().
TaskUnsubLock(p, s) ==
    /\ ~panicked
    /\ <<p, s>> \in DOMAIN tasks
    /\ tasks[<<p, s>>] = "unsub"
    /\ CanLock
    /\ LockCall
    /\ tasks' = [tasks EXCEPT ![<<p, s>>] = AfterLock("unsub_locked", "unsub_wait")]
    /\ UNCHANGED <<seq, hubVars, subs, counter, rwReaders, pc, thr, pubs, invoked, panicked>>
    /\ UNCHANGED <<calls, fn>>

\* The readers have left: the goroutine that waits in Lock() gets the lock.
TaskWake(p, s) ==
    /\ ~panicked
    /\ <<p, s>> \in DOMAIN tasks
    /\ tasks[<<p, s>>] = "unsub_wait"
    /\ CanWake
    /\ rwWriter' = "held"
    /\ tasks' = [tasks EXCEPT ![<<p, s>>] = "unsub_locked"]
    /\ UNCHANGED <<seq, hubVars, subs, counter, rwReaders, pc, thr, pubs, invoked, panicked>>
    /\ UNCHANGED <<calls, fn>>

\* h.Unsubscribe in a goroutine under the lock, Unlock; the goroutine ends.
TaskUnsubBody(p, s) ==
    /\ ~panicked
    /\ <<p, s>> \in DOMAIN tasks
    /\ tasks[<<p, s>>] = "unsub_locked"
    /\ SetHub(HubUnsubscribe(Hub, s, TopicOf))
    /\ rwWriter' = "free"
    /\ tasks' = MapDel(tasks, <<p, s>>)
    /\ UNCHANGED <<seq, subs, counter, rwReaders, pc, thr, pubs, invoked, panicked>>
    /\ calls' = TallyGone(Tally(calls, "auto", Hit(s)), s)
    /\ UNCHANGED fn

\* ------------------------------------------------------- specifications

\* The goroutines of publish calls 1..np over subscriptions 1..ns.
TaskIds(np, ns) == (1..np) \X (1..ns)

\* The steps of the handler goroutines and of `go e.finish`.
TaskStep(p, s) ==
    \/ TaskCall(p, s)
    \/ TaskReturn(p, s)
    \/ TaskOnce(p, s)
    \/ TaskOnceWake(p, s)
    \/ TaskUnsubLock(p, s)
    \/ TaskWake(p, s)
    \/ TaskUnsubBody(p, s)

\* The steps of a thread inside a call.
InCall(t) ==
    \/ SubscribeBody(t)
    \/ UnsubscribeBody(t)
    \/ ClearBody(t)
    \/ WakeWriter(t)
    \/ LenReturn(t)
    \/ PubSyncCall(t)
    \/ PubSyncReturn(t)
    \/ PubSyncEnd(t)
    \/ PubUnsubLock(t)
    \/ PubUnsubBody(t)
    \/ PubLaunch(t)
    \/ PubAsyncUnlock(t)
    \/ PubWaitDone(t)

\* Every combination of Sync, Wait and OnFinish options.
PubOptions ==
    [sync : BOOLEAN, wait : BOOLEAN, fin : {<<>>, <<"f1">>}]

\* ---- Spec: two threads, every operation, one Publish in any mode.

Threads == {1, 2}

\* The patterns subscribed with: the catch-all, and one the event does not
\* satisfy.
SubTopics == {<<>>, <<KV("a", "1")>>}

\* The topics published to.
EvTopics == {<<KV("a", "2")>>}

\* The Publish calls under Spec.
PubIds == {1}

Init == InitFor(Threads)

Next ==
    \/ \E t \in Threads, topic \in SubTopics, once \in BOOLEAN :
          CallSubscribe(t, topic, once, MaxSubs)
    \/ \E t \in Threads, id \in 1..MaxSubs : CallUnsubscribe(t, id)
    \/ \E t \in Threads : CallClear(t)
    \/ \E t \in Threads : CallLen(t)
    \/ \E t \in Threads, topic \in EvTopics, o \in PubOptions :
          CallPublish(t, topic, o.sync, o.wait, o.fin, Cardinality(PubIds))
    \/ \E t \in Threads : InCall(t)
    \/ \E id \in TaskIds(Cardinality(PubIds), MaxSubs) : TaskStep(id[1], id[2])
    \/ \E p \in 1..Len(pubs) : BgFinish(p)

Spec == Init /\ [][Next]_vars

\* ---- SpecRace: two Publish calls that may overlap, in any two modes, on a
\* hub that thread 1 also subscribes to.

\* The Publish calls under SpecRace.
PubIdsRace == {1, 2}

\* One option set for each of the four modes.
ModeOptions ==
    {[sync |-> TRUE,  wait |-> FALSE, fin |-> <<>>],
     [sync |-> FALSE, wait |-> TRUE,  fin |-> <<>>],
     [sync |-> FALSE, wait |-> FALSE, fin |-> <<"f1">>],
     [sync |-> FALSE, wait |-> FALSE, fin |-> <<>>]}

\* The steps inside the calls SpecRace makes.
InCallRace(t) ==
    \/ SubscribeBody(t) \/ WakeWriter(t)
    \/ PubSyncCall(t) \/ PubSyncReturn(t) \/ PubSyncEnd(t) \/ PubUnsubLock(t) \/ PubUnsubBody(t)
    \/ PubLaunch(t) \/ PubAsyncUnlock(t) \/ PubWaitDone(t)

NextRace ==
    \/ \E once \in BOOLEAN : CallSubscribe(1, <<>>, once, MaxSubsRace)
    \/ \E t \in Threads, topic \in EvTopics, o \in ModeOptions :
          CallPublish(t, topic, o.sync, o.wait, o.fin, Cardinality(PubIdsRace))
    \/ \E t \in Threads : InCallRace(t)
    \/ \E id \in TaskIds(Cardinality(PubIdsRace), MaxSubsRace) : TaskStep(id[1], id[2])
    \/ \E p \in 1..Len(pubs) : BgFinish(p)

SpecRace == Init /\ [][NextRace]_vars

\* ---- SpecSeq: one thread that subscribes with every pattern of up to two
\* pairs, unsubscribes, clears, and publishes synchronously to every topic.

\* The pairs of the patterns: both keys, an exact value and the wildcard.
SubPairs == {KV(k, v) : k \in {"a", "b"}, v \in {"1", Any}}

\* The pairs of the event topics: a second exact value as well.
EvPairs == {KV(k, v) : k \in {"a", "b"}, v \in {"1", "2", Any}}

\* What kv.Parse can return for up to two pairs out of P: the pairs sorted by
\* key; sort.Slice is not stable, so pairs with one key come in either order.
ParsedFrom(P) ==
    {<<>>} \cup {<<x>> : x \in P}
           \cup {<<xy[1], xy[2]>> : xy \in {z \in P \X P : ~KeyLess(z[2].key, z[1].key)}}

\* The Publish calls under SpecSeq.
PubIdsSeq == {1}

InitSeq == InitFor({1})

NextSeq ==
    \/ \E topic \in ParsedFrom(SubPairs) : CallSubscribe(1, topic, FALSE, MaxSubsSeq)
    \/ SubscribeBody(1)
    \/ \E id \in 1..MaxSubsSeq : CallUnsubscribe(1, id)
    \/ UnsubscribeBody(1)
    \/ CallClear(1)
    \/ ClearBody(1)
    \/ \E topic \in ParsedFrom(EvPairs) :
          CallPublish(1, topic, TRUE, FALSE, <<>>, Cardinality(PubIdsSeq))
    \/ PubSyncCall(1)
    \/ PubSyncReturn(1)
    \/ PubSyncEnd(1)

SpecSeq == InitSeq /\ [][NextSeq]_vars

\* ---- SpecLock: two threads that each subscribe, unsubscribe, clear, ask
\* Len and publish (sync, wait or fire-and-forget), two Publish calls in all.

\* The Publish calls under SpecLock.
PubIdsLock == {1, 2}

\* The modes without a completion callback.
PlainOptions == {o \in ModeOptions : o.fin = <<>>}

\* The steps of the handler goroutines when no Publish has a callback.
TaskStepPlain(p, s) ==
    \/ TaskCall(p, s)
    \/ TaskReturn(p, s)
    \/ TaskUnsubLock(p, s)
    \/ TaskWake(p, s)
    \/ TaskUnsubBody(p, s)

NextLock ==
    \/ \E t \in Threads, once \in BOOLEAN : CallSubscribe(t, <<>>, once, MaxSubsLock)
    \/ \E t \in Threads, id \in 1..MaxSubsLock : CallUnsubscribe(t, id)
    \/ \E t \in Threads : CallClear(t)
    \/ \E t \in Threads : CallLen(t)
    \/ \E t \in Threads, topic \in EvTopics, o \in PlainOptions :
          CallPublish(t, topic, o.sync, o.wait, o.fin, Cardinality(PubIdsLock))
    \/ \E t \in Threads : InCall(t)
    \/ \E id \in TaskIds(Cardinality(PubIdsLock), MaxSubsLock) : TaskStepPlain(id[1], id[2])

SpecLock == Init /\ [][NextLock]_vars

\* ---- SpecFin: one thread that subscribes up to three catch-all handlers
\* and publishes once with a completion callback and without Sync or Wait.

\* The Publish calls under SpecFin.
PubIdsFin == {1}

NextFin ==
    \/ \E once \in BOOLEAN : CallSubscribe(1, <<>>, once, MaxSubsFin)
    \/ SubscribeBody(1)
    \/ \E topic \in EvTopics :
          CallPublish(1, topic, FALSE, FALSE, <<"f1">>, Cardinality(PubIdsFin))
    \/ PubLaunch(1)
    \/ PubAsyncUnlock(1)
    \/ \E id \in TaskIds(Cardinality(PubIdsFin), MaxSubsFin) : TaskStep(id[1], id[2])
    \/ \E p \in 1..Len(pubs) : BgFinish(p)

SpecFin == InitSeq /\ [][NextFin]_vars

\* ---- SpecLen: one thread that subscribes, unsubscribes, clears, asks Len
\* and publishes twice (sync or fire-and-forget), with the calls counted.

\* The Publish calls under SpecLen.
PubIdsLen == {1, 2}

\* The patterns subscribed with under SpecClear: both match every event.
ClearTopics == {<<>>, <<KV("a", Any)>>}

\* Sync and fire-and-forget.
LenOptions == {o \in ModeOptions : o.fin = <<>> /\ ~o.wait}

InitLen == InitWith({1}, ZeroTally)

NextLen ==
    \/ \E once \in BOOLEAN : CallSubscribe(1, <<>>, once, MaxSubsLen)
    \/ SubscribeBody(1)
    \/ \E id \in 1..MaxSubsLen : calls.unsub < MaxUnsubCalls /\ CallUnsubscribe(1, id)
    \/ UnsubscribeBody(1)
    \/ calls.clear < MaxClearCalls /\ CallClear(1)
    \/ ClearBody(1)
    \/ CallLen(1)
    \/ LenReturn(1)
    \/ \E topic \in EvTopics, o \in LenOptions :
          CallPublish(1, topic, o.sync, o.wait, o.fin, Cardinality(PubIdsLen))
    \/ PubSyncCall(1) \/ PubSyncReturn(1) \/ PubSyncEnd(1)
    \/ PubUnsubLock(1) \/ PubUnsubBody(1)
    \/ PubLaunch(1) \/ PubAsyncUnlock(1)
    \/ \E id \in TaskIds(Cardinality(PubIdsLen), MaxSubsLen) : TaskStepPlain(id[1], id[2])

SpecLen == InitLen /\ [][NextLen]_vars

\* ---- SpecClear: thread 1 subscribes and publishes while thread 2 calls
\* Clear; the history of calls is kept.
PubIdsClear == {1, 2}

InitClear == InitWith({1, 2}, ZeroTally)

NextClear ==
    \/ \E topic \in ClearTopics : CallSubscribe(1, topic, FALSE, MaxSubsClear)
    \/ SubscribeBody(1)
    \/ calls.clear < MaxClearCalls /\ CallClear(2)
    \/ ClearBody(2)
    \/ \E t \in {1, 2} : WakeWriter(t)
    \/ \E topic \in EvTopics, o \in LenOptions :
          CallPublish(1, topic, o.sync, o.wait, o.fin, Cardinality(PubIdsClear))
    \/ PubSyncCall(1)
    \/ PubSyncReturn(1)
    \/ PubSyncEnd(1)
    \/ PubLaunch(1)
    \/ PubAsyncUnlock(1)
    \/ \E id \in TaskIds(Cardinality(PubIdsClear), MaxSubsClear) :
          \/ TaskCall(id[1], id[2])
          \/ TaskReturn(id[1], id[2])

SpecClear == InitClear /\ [][NextClear]_vars

\* ---- SpecMatch: one call of Map.Match on two key-sorted maps with unique
\* keys, of up to MaxPairs pairs each.
KvPairs == {KV(KeyOrder[i], v) : i \in 1..Len(KeyOrder), v \in {"1", "2", Any}}

\* The maps of n pairs with strictly ascending keys.
UniqueSorted(n) ==
    {m \in [1..n -> KvPairs] : \A i \in 1..(n - 1) : KeyLess(m[i].key, m[i + 1].key)}

KvMaps == UNION {UniqueSorted(n) : n \in 0..MaxPairs}

InitMatch ==
    /\ NewHub({}, NoTally)
    /\ fn \in {Call("Match", <<a, b>>) : a \in KvMaps, b \in KvMaps}

MatchCall ==
    /\ fn.op = "Match"
    /\ ~fn.done
    /\ fn' = Return(fn, Match(fn.in[1], fn.in[2]))
    /\ UNCHANGED hubFrame

NextMatch == MatchCall

SpecMatch == InitMatch /\ [][NextMatch]_vars

\* ---- SpecMerge: one call of Map.Merge on two maps as kv.Parse returns
\* them: up to MaxPairs pairs each, sorted by key, a key possibly repeated.
Sorted(n) ==
    {m \in [1..n -> KvPairs] : \A i \in 1..(n - 1) : ~KeyLess(m[i + 1].key, m[i].key)}

ParsedMaps == UNION {Sorted(n) : n \in 0..MaxPairs}

InitMerge ==
    /\ NewHub({}, NoTally)
    /\ fn \in {Call("Merge", <<a, b>>) : a \in ParsedMaps, b \in ParsedMaps}

MergeCall ==
    /\ fn.op = "Merge"
    /\ ~fn.done
    /\ fn' = Return(fn, Merge(fn.in[1], fn.in[2]))
    /\ UNCHANGED hubFrame

NextMerge == MergeCall

SpecMerge == InitMerge /\ [][NextMerge]_vars

\* ---- SpecParse: one call of kv.Parse with up to MaxTokens tokens of up to
\* MaxTokenLen characters each.
Chars == {CharOrder[i] : i \in 1..Len(CharOrder)}

Tokens == UNION {[1..n -> Chars] : n \in 0..MaxTokenLen}

\* The argument lists of n tokens.
TokenLists(n) == [1..n -> Tokens]

InitParse ==
    /\ NewHub({}, NoTally)
    /\ \E n \in 0..MaxTokens : \E d \in TokenLists(n) : fn = Call("Parse", d)

ParseCall ==
    /\ fn.op = "Parse"
    /\ ~fn.done
    /\ \E r \in Parse(fn.in) : fn' = Return(fn, r)
    /\ UNCHANGED hubFrame

NextParse == ParseCall

SpecParse == InitParse /\ [][NextParse]_vars

\* ---- SpecEvent: an Event made by NewEvent and up to MaxEvents - 1 calls of
\* a modifier or a publish option on any Event made so far.
EventTopics == {"t1", "t2"}

Payloads == {"nil", "p"}

Callbacks == {NilCb, "f", "g"}

\* By how much the allocator may round a capacity up.
Slack == {0, 1}

\* The memory after the last call.
Mem == fn.out.mem

InitEvent ==
    /\ NewHub({}, NoTally)
    /\ fn \in {Return(Call("NewEvent", [mem |-> EmptyMem, e |-> 0, arg |-> t]),
                      [mem |-> [EmptyMem EXCEPT !.ev = <<ZeroEvent(t)>>], ret |-> 1]) :
                  t \in EventTopics}

\* op(arg) is called on the Event e and returns r.
Applied(op, e, arg, r) ==
    /\ fn' = Return(Call(op, [mem |-> Mem, e |-> e, arg |-> arg]), r)
    /\ UNCHANGED hubFrame

\* The Events a call can be made on.
Callable == IF Len(Mem.ev) < MaxEvents THEN 1..Len(Mem.ev) ELSE {}

CallWithTopic ==
    \E e \in Callable, t \in EventTopics, c \in Slack :
        Applied("WithTopic", e, t, WithTopic(Mem, e, t, Mem.ev[e].onFinish.len + c))

CallWithPayload ==
    \E e \in Callable, v \in Payloads, c \in Slack :
        Applied("WithPayload", e, v, WithPayload(Mem, e, v, Mem.ev[e].onFinish.len + c))

CallWithWait ==
    \E e \in Callable, v \in BOOLEAN, c \in Slack :
        Applied("WithWait", e, v, WithWait(Mem, e, v, Mem.ev[e].onFinish.len + c))

CallWithSync ==
    \E e \in Callable, v \in BOOLEAN, c \in Slack :
        Applied("WithSync", e, v, WithSync(Mem, e, v, Mem.ev[e].onFinish.len + c))

CallWithOnFinish ==
    \E e \in Callable, cb \in Callbacks, c \in Slack, c2 \in Slack :
        Applied("WithOnFinish", e, cb,
                WithOnFinish(Mem, e, cb, Mem.ev[e].onFinish.len + c,
                             Mem.ev[e].onFinish.len + 1 + c2))

\* optionPublishSync.modifyEvent
ApplySync ==
    \E e \in Callable, v \in BOOLEAN, c \in Slack :
        Applied("Sync", e, v, WithSync(Mem, e, v, Mem.ev[e].onFinish.len + c))

\* optionPublishWait.modifyEvent
ApplyWait ==
    \E e \in Callable, v \in BOOLEAN, c \in Slack :
        Applied("Wait", e, v, WithWait(Mem, e, v, Mem.ev[e].onFinish.len + c))

\* optionPublishOnFinish.modifyEvent
ApplyOnFinish ==
    \E e \in Callable, cb \in Callbacks, c \in Slack, c2 \in Slack :
        Applied("OnFinish", e, cb,
                OnFinish(Mem, e, cb, Mem.ev[e].onFinish.len + c,
                         Mem.ev[e].onFinish.len + 1 + c2))

NextEvent ==
    \/ CallWithTopic
    \/ CallWithPayload
    \/ CallWithWait
    \/ CallWithSync
    \/ CallWithOnFinish
    \/ ApplySync
    \/ ApplyWait
    \/ ApplyOnFinish

SpecEvent == InitEvent /\ [][NextEvent]_vars

\* ---- SpecErr: one thread that subscribes up to MaxSubsErr catch-all
\* handlers and publishes twice, in any mode; every handler entered returns
\* nil or an error.

\* The Publish calls under SpecErr.
PubIdsErr == {1, 2}

\* The steps of the handler goroutines, s.call returning nil or an error.
TaskStepErr(p, s) ==
    \/ TaskCall(p, s)
    \/ \E err \in BOOLEAN : TaskReturns(p, s, err)
    \/ TaskOnce(p, s)
    \/ TaskOnceWake(p, s)
    \/ TaskUnsubLock(p, s)
    \/ TaskWake(p, s)
    \/ TaskUnsubBody(p, s)

NextErr ==
    \/ \E once \in BOOLEAN : CallSubscribe(1, <<>>, once, MaxSubsErr)
    \/ SubscribeBody(1)
    \/ \E topic \in EvTopics, o \in ModeOptions :
          CallPublish(1, topic, o.sync, o.wait, o.fin, Cardinality(PubIdsErr))
    \/ PubSyncCall(1)
    \/ \E err \in BOOLEAN : PubSyncReturns(1, err)
    \/ PubSyncEnd(1)
    \/ PubUnsubLock(1)
    \/ PubUnsubBody(1)
    \/ PubLaunch(1)
    \/ PubAsyncUnlock(1)
    \/ PubWaitDone(1)
    \/ \E id \in TaskIds(Cardinality(PubIdsErr), MaxSubsErr) : TaskStepErr(id[1], id[2])
    \/ \E p \in 1..Len(pubs) : BgFinish(p)

SpecErr == InitSeq /\ [][NextErr]_vars

\* ---- SpecOnce: one thread that subscribes up to MaxSubsOnce handlers, once
\* or not, with patterns that reach all three indexes, and publishes twice in
\* any mode.

\* The patterns subscribed with: into indexEmpty, into one key's buckets and
\* into two keys' buckets, one of them under the wildcard.
OnceSubTopics == {<<>>, <<KV("a", "1")>>, <<KV("a", "1"), KV("b", Any)>>}

\* The topics published to: the first satisfies every pattern, the second
\* only the catch-all.
OnceEvTopics == {<<KV("a", "1"), KV("b", "1")>>, <<KV("a", "2")>>}

\* The Publish calls under SpecOnce.
PubIdsOnce == {1, 2}

\* One option set for each mode, the synchronous one with a completion
\* callback.
OnceOptions ==
    {o \in ModeOptions : ~o.sync} \cup {[sync |-> TRUE, wait |-> FALSE, fin |-> <<"f1">>]}

NextOnce ==
    \/ \E topic \in OnceSubTopics, once \in BOOLEAN :
          CallSubscribe(1, topic, once, MaxSubsOnce)
    \/ SubscribeBody(1)
    \/ \E topic \in OnceEvTopics, o \in OnceOptions :
          CallPublish(1, topic, o.sync, o.wait, o.fin, Cardinality(PubIdsOnce))
    \/ PubSyncCall(1)
    \/ PubSyncReturn(1)
    \/ PubSyncEnd(1)
    \/ PubUnsubLock(1)
    \/ PubUnsubBody(1)
    \/ PubLaunch(1)
    \/ PubAsyncUnlock(1)
    \/ PubWaitDone(1)
    \/ \E id \in TaskIds(Cardinality(PubIdsOnce), MaxSubsOnce) : TaskStep(id[1], id[2])
    \/ \E p \in 1..Len(pubs) : BgFinish(p)

SpecOnce == InitSeq /\ [][NextOnce]_vars

\* ---- SpecFair: one thread that subscribes up to MaxSubsFair catch-all
\* handlers, once or not, and publishes once in any mode; a thread inside a
\* call and every goroutine keep running (the Go scheduler runs every
\* runnable goroutine, and every handler returns).

\* The Publish calls under SpecFair.
PubIdsFair == {1}

\* The steps of the thread inside Subscribe and Publish.
InCallFair ==
    \/ SubscribeBody(1)
    \/ PubSyncCall(1)
    \/ PubSyncReturn(1)
    \/ PubSyncEnd(1)
    \/ PubUnsubLock(1)
    \/ PubUnsubBody(1)
    \/ PubLaunch(1)
    \/ PubAsyncUnlock(1)
    \/ PubWaitDone(1)

NextFair ==
    \/ \E once \in BOOLEAN : CallSubscribe(1, <<>>, once, MaxSubsFair)
    \/ \E topic \in EvTopics, o \in OnceOptions :
          CallPublish(1, topic, o.sync, o.wait, o.fin, Cardinality(PubIdsFair))
    \/ InCallFair
    \/ \E id \in TaskIds(Cardinality(PubIdsFair), MaxSubsFair) : TaskStep(id[1], id[2])
    \/ \E p \in 1..Len(pubs) : BgFinish(p)

\* Weak fairness for the thread inside a call, for each goroutine and for
\* the goroutine of `go e.finish`.
Fairness ==
    /\ WF_vars(InCallFair)
    /\ \A id \in TaskIds(Cardinality(PubIdsFair), MaxSubsFair) : WF_vars(TaskStep(id[1], id[2]))
    /\ WF_vars(\E p \in 1..Len(pubs) : BgFinish(p))

SpecFair == InitSeq /\ [][NextFair]_vars /\ Fairness

\* ---- SpecMergeLists: one call of mergeSubLists on up to MaxLists sublists
\* of up to MaxListLen IDs each, ranged over by a consumer that breaks after
\* k elements (k = 0: it never breaks), one iteration of the outer loop per
\* step.

\* The sublists of n entries: IDs from 1 on (h.seq.Add(1) never gives 0), in
\* ascending order, repeats allowed.
AscLists(n) == {q \in [1..n -> 1..MaxID] : \A i \in 1..n - 1 : q[i] <= q[i + 1]}

\* The sublists a call is given.
SubLists == UNION {AscLists(n) : n \in 0..MaxListLen}

\* MergeStep as it would be if the result of yield were ignored.
MergeStepIgnoresStop(lists, k, st) ==
    LET b == PickSmallest(lists, st.indices, 1, 0)
    IN  IF b = 0 THEN [st EXCEPT !.ret = TRUE]
        ELSE LET smallest == lists[b][st.indices[b] + 1]
                 adv == [st.indices EXCEPT ![b] = @ + 1]
             IN  IF smallest # st.prevID
                 THEN [st EXCEPT !.prevID = smallest, !.out = Append(@, smallest),
                                 !.indices = adv]
                 ELSE [st EXCEPT !.indices = adv]

\* MergeStep as it would be without the prevID test.
MergeStepKeepsDuplicates(lists, k, st) ==
    LET b == PickSmallest(lists, st.indices, 1, 0)
    IN  IF b = 0 THEN [st EXCEPT !.ret = TRUE]
        ELSE LET smallest == lists[b][st.indices[b] + 1]
                 adv == [st.indices EXCEPT ![b] = @ + 1]
             IN  IF Len(st.out) + 1 = k
                 THEN [st EXCEPT !.prevID = smallest, !.out = Append(@, smallest),
                                 !.ret = TRUE]
                 ELSE [st EXCEPT !.prevID = smallest, !.out = Append(@, smallest),
                                 !.indices = adv]

\* One iteration of the outer `for` of mergeSubLists.  st is [indices,
\* prevID, out, ret]: out is what was yielded, ret says the function has
\* returned.  yield returns false when the consumer breaks, which it does on
\* receiving its k-th element.
MergeStep(lists, k, st) ==
    LET b == PickSmallest(lists, st.indices, 1, 0)
    IN  IF b = 0 THEN [st EXCEPT !.ret = TRUE]
        ELSE LET smallest == lists[b][st.indices[b] + 1]
                 adv == [st.indices EXCEPT ![b] = @ + 1]
             IN  IF smallest # st.prevID
                 THEN IF Len(st.out) + 1 = k
                      THEN [st EXCEPT !.prevID = smallest, !.out = Append(@, smallest),
                                      !.ret = TRUE]
                      ELSE [st EXCEPT !.prevID = smallest, !.out = Append(@, smallest),
                                      !.indices = adv]
                 ELSE [st EXCEPT !.indices = adv]

InitMergeLists ==
    /\ NewHub({}, NoTally)
    /\ \E n \in 0..MaxLists : \E ls \in [1..n -> SubLists] : \E k \in 0..MaxStop :
          fn = [Call("mergeSubLists", [lists |-> ls, k |-> k])
                   EXCEPT !.out = [indices |-> [i \in 1..n |-> 0], prevID |-> 0,
                                   out |-> <<>>, ret |-> FALSE]]

\* The consumer ranges over the sequence: one more iteration of the loop.
MergeIterate ==
    /\ fn.op = "mergeSubLists"
    /\ ~fn.done
    /\ LET st == MergeStep(fn.in.lists, fn.in.k, fn.out)
       IN  fn' = [fn EXCEPT !.out = st, !.done = st.ret]
    /\ UNCHANGED hubFrame

NextMergeLists == MergeIterate

SpecMergeLists == InitMergeLists /\ [][NextMergeLists]_vars

\* ---- SpecSublist: add and remove calls on one sublist, with IDs from
\* 1..MaxSlID in any order, the same ID more than once too, while the list
\* has at most MaxSlLen entries.  fn.in is the last call and the list before
\* it, fn.out the list.

InitSublist ==
    /\ NewHub({}, NoTally)
    /\ fn = Return(Call("sublist", [op |-> "new", id |-> 0, before |-> <<>>]), <<>>)

\* sl.add(&sub{id: id})
SublistAdd(id) ==
    /\ fn.op = "sublist"
    /\ SlLen(fn.out) < MaxSlLen
    /\ fn' = Return(Call("sublist", [op |-> "add", id |-> id, before |-> fn.out]),
                    SlAdd(fn.out, id))
    /\ UNCHANGED hubFrame

\* sl.remove(id)
SublistRemove(id) ==
    /\ fn.op = "sublist"
    /\ fn' = Return(Call("sublist", [op |-> "remove", id |-> id, before |-> fn.out]),
                    SlRemove(fn.out, id))
    /\ UNCHANGED hubFrame

NextSublist ==
    \/ \E id \in 1..MaxSlID : SublistAdd(id)
    \/ \E id \in 1..MaxSlID : SublistRemove(id)

SpecSublist == InitSublist /\ [][NextSublist]_vars

\* ---- SpecOptions: the head of one Publish call with up to MaxOpts
\* options, nil ones among them: the loop over opts, one option per step, and
\* then the choice of the mode.

\* The nil PublishOption.
NilOption == [kind |-> "nil"]

\* What Sync(v), Wait(v) and OnFinish(cb) return, and nil.
Options ==
    {NilOption}
        \cup {[kind |-> "Sync", v |-> v] : v \in BOOLEAN}
        \cup {[kind |-> "Wait", v |-> v] : v \in BOOLEAN}
        \cup {[kind |-> "OnFinish", cb |-> cb] : cb \in {NilCb, "f"}}

\* The opts arguments of n options.
OptionLists(n) == [1..n -> Options]

\* o.modifyEvent(ctx, e) on the event's flags and callbacks: Sync and Wait
\* set their flag to v, OnFinish adds its callback unless it is nil.
modifyEvent(o, e) ==
    CASE o.kind = "Sync" -> [e EXCEPT !.sync = o.v]
      [] o.kind = "Wait" -> [e EXCEPT !.wait = o.v]
      [] o.kind = "OnFinish" ->
            IF o.cb = NilCb THEN e ELSE [e EXCEPT !.onFinish = Append(@, o.cb)]

\* e := &event{topic, payload}: no flag set, no callback; no mode chosen yet.
InitOptions ==
    /\ NewHub({}, NoTally)
    /\ \E n \in 0..MaxOpts : \E opts \in OptionLists(n) :
          fn = [Call("Publish", opts)
                   EXCEPT !.out = [i |-> 0, mode |-> "none",
                                   e |-> [sync |-> FALSE, wait |-> FALSE, onFinish |-> <<>>]]]

\* One iteration of `for _, o := range opts`: a nil option is passed over.
PublishOption ==
    /\ fn.op = "Publish"
    /\ ~fn.done
    /\ fn.out.i < Len(fn.in)
    /\ LET o == fn.in[fn.out.i + 1]
       IN  fn' = [fn EXCEPT !.out.i = @ + 1,
                            !.out.e = IF o = NilOption THEN @ ELSE modifyEvent(o, @)]
    /\ UNCHANGED hubFrame

\* The chain of ifs after the loop: the publish function that is called.
PublishChoose ==
    /\ fn.op = "Publish"
    /\ ~fn.done
    /\ fn.out.i = Len(fn.in)
    /\ fn' = [fn EXCEPT !.done = TRUE,
                        !.out.mode = ModeOf(fn.out.e.sync, fn.out.e.wait, fn.out.e.onFinish)]
    /\ UNCHANGED hubFrame

NextOptions ==
    \/ PublishOption
    \/ PublishChoose

SpecOptions == InitOptions /\ [][NextOptions]_vars

\* ---- SpecLive: thread 1 subscribes up to MaxSubsLive catch-all handlers,
\* once or not, and publishes once in any mode, while thread 2 calls
\* Unsubscribe (of the first ID), Clear and Len; handlers and callbacks return and do not call
\* the hub.  A thread inside a call and every goroutine keep running, and a
\* goroutine that asks for the write lock gets it in the end (sync.Mutex
\* hands the lock to a waiter that was passed over).

\* The Publish calls under SpecLive.
PubIdsLive == {1}

NextLive ==
    \/ \E once \in BOOLEAN : CallSubscribe(1, <<>>, once, MaxSubsLive)
    \/ \E topic \in EvTopics, o \in OnceOptions :
          CallPublish(1, topic, o.sync, o.wait, o.fin, Cardinality(PubIdsLive))
    \/ CallUnsubscribe(2, 1)
    \/ CallClear(2)
    \/ CallLen(2)
    \/ \E t \in Threads : InCall(t)
    \/ \E id \in TaskIds(Cardinality(PubIdsLive), MaxSubsLive) : TaskStep(id[1], id[2])
    \/ \E p \in 1..Len(pubs) : BgFinish(p)

\* Strong fairness for each thread inside a call and for each goroutine,
\* weak fairness for the goroutine of `go e.finish`.
FairnessLive ==
    /\ \A t \in Threads : SF_vars(InCall(t))
    /\ \A id \in TaskIds(Cardinality(PubIdsLive), MaxSubsLive) : SF_vars(TaskStep(id[1], id[2]))
    /\ WF_vars(\E p \in 1..Len(pubs) : BgFinish(p))

SpecLive == Init /\ [][NextLive]_vars /\ FairnessLive

(***************************************************************************)
(* Handlers that call the hub.                                             *)
(***************************************************************************)

\* Thread 1 subscribes to every event and publishes sequentially; its
\* handler may call Subscribe, Unsubscribe or Clear on the same hub before
\* it returns.  Thread 2 calls Subscribe, Unsubscribe and Clear.

\* The Publish calls under SpecNested.
PubIdsNested == {1, 2}

\* The write calls a handler makes.
HandlerWriteCalls == {"h_sub", "h_unsub", "h_clear"}

InCallNested(t) ==
    \/ SubscribeBody(t)
    \/ UnsubscribeBody(t)
    \/ ClearBody(t)
    \/ WakeWriter(t)
    \/ PubSyncCall(t)
    \/ PubSyncReturn(t)
    \/ PubSyncEnd(t)

NextNested ==
    \/ \E t \in Threads : CallSubscribe(t, <<>>, FALSE, MaxSubsNested)
    \/ \E t \in Threads, id \in 1..MaxSubsNested : CallUnsubscribe(t, id)
    \/ \E t \in Threads : CallClear(t)
    \/ \E topic \in EvTopics :
          CallPublish(1, topic, TRUE, FALSE, <<>>, Cardinality(PubIdsNested))
    \/ \E h \in HandlerWriteCalls : HandlerCalls(1, h)
    \/ \E t \in Threads : InCallNested(t)

SpecNested == Init /\ [][NextNested]_vars

\* Thread 1 subscribes to every event and publishes sequentially; its
\* handler may publish sequentially on the same hub before it returns.
\* Thread 2 calls Subscribe, Unsubscribe and Clear.  A thread inside a call
\* keeps running, and a handler that has decided to publish calls Publish.

\* The Publish calls under SpecReenter: the outer one and the handler's.
PubIdsReenter == {1, 2}

\* The handler on thread t decides to publish (once per behaviour).
HandlerDecides(t) ==
    /\ Len(pubs) < Cardinality(PubIdsReenter)
    /\ HandlerCalls(t, "h_pub")

\* The handler on thread t, having decided to publish, calls Publish.
HandlerPublishes(t) ==
    /\ pc[t] = "h_pub"
    /\ \E topic \in EvTopics :
          CallPublish(t, topic, TRUE, FALSE, <<>>, Cardinality(PubIdsReenter))

\* Thread t, outside the hub, makes the first Publish call.
OuterPublish(t) ==
    /\ pc[t] = "idle"
    /\ Len(pubs) = 0
    /\ \E topic \in EvTopics :
          CallPublish(t, topic, TRUE, FALSE, <<>>, Cardinality(PubIdsReenter))

NextReenter ==
    \/ \E t \in Threads : CallSubscribe(t, <<>>, FALSE, MaxSubsReenter)
    \/ \E id \in 1..MaxSubsReenter : CallUnsubscribe(2, id)
    \/ CallClear(2)
    \/ OuterPublish(1)
    \/ HandlerDecides(1)
    \/ HandlerPublishes(1)
    \/ \E t \in Threads : InCallNested(t)

FairnessReenter ==
    /\ \A t \in Threads : SF_vars(InCallNested(t))
    /\ WF_vars(HandlerPublishes(1))

SpecReenter == Init /\ [][NextReenter]_vars /\ FairnessReenter

(***************************************************************************)
(* Publish after Unsubscribe.                                              *)
(***************************************************************************)

\* Thread 1 subscribes with patterns that reach every index and
\* unsubscribes the first subscription; thread 2 publishes twice in any mode.  The history
\* records the IDs whose Unsubscribe has returned, and each Publish
\* remembers that set as it was when the Publish took the read lock.

\* The Publish calls under SpecGone.
PubIdsGone == {1, 2}

InitGone == InitWith(Threads, IdTally)

InCallGone(t) ==
    \/ SubscribeBody(t)
    \/ UnsubscribeBody(t)
    \/ WakeWriter(t)
    \/ PubSyncCall(t)
    \/ PubSyncReturn(t)
    \/ PubSyncEnd(t)
    \/ PubLaunch(t)
    \/ PubAsyncUnlock(t)
    \/ PubWaitDone(t)

\* The steps of a handler goroutine of a subscription that stays.
TaskStepGone(p, s) ==
    \/ TaskCall(p, s)
    \/ TaskReturn(p, s)
    \/ TaskOnce(p, s)
    \/ TaskOnceWake(p, s)

\* Thread t publishes, in any mode, an event that every pattern matches.
PublishGone(t) ==
    \E o \in ModeOptions :
       CallPublish(t, <<KV("a", "1"), KV("b", "1")>>, o.sync, o.wait, o.fin,
                   Cardinality(PubIdsGone))

NextGone ==
    \/ \E topic \in OnceSubTopics : CallSubscribe(1, topic, FALSE, MaxSubsGone)
    \/ CallUnsubscribe(1, 1)
    \/ PublishGone(2)
    \/ \E t \in Threads : InCallGone(t)
    \/ \E id \in TaskIds(Cardinality(PubIdsGone), MaxSubsGone) : TaskStepGone(id[1], id[2])
    \/ \E p \in 1..Len(pubs) : BgFinish(p)

SpecGone == InitGone /\ [][NextGone]_vars

(***************************************************************************)
(* sublist.find, sublist.remove and sublist.len as functions.              *)
(***************************************************************************)

\* The sublists of up to MaxFindLen IDs out of 0..MaxFindID, ascending and
\* without a repeated ID.
UniqueLists ==
    {q \in UNION {[1..n -> 0..MaxFindID] : n \in 0..MaxFindLen} :
        \A i \in 1..Len(q) - 1 : q[i] < q[i + 1]}

InitFind ==
    /\ NewHub({}, NoTally)
    /\ fn \in {Call(op, [lst |-> q, id |-> x]) :
                  op \in {"find", "remove"}, q \in UniqueLists, x \in 0..MaxFindID}
              \cup {Call("len", sl) : sl \in {NilSublist} \cup {SublistPtr(q) : q \in UniqueLists}}

\* sl.find(id)
FindCall ==
    /\ fn.op = "find"
    /\ ~fn.done
    /\ fn' = Return(fn, SlFind(fn.in.lst, fn.in.id))
    /\ UNCHANGED hubFrame

\* sl.remove(id); the result is sl.lst afterwards
RemoveCall ==
    /\ fn.op = "remove"
    /\ ~fn.done
    /\ fn' = Return(fn, SlRemove(fn.in.lst, fn.in.id))
    /\ UNCHANGED hubFrame

\* sl.len()
LenCall ==
    /\ fn.op = "len"
    /\ ~fn.done
    /\ fn' = Return(fn, SublistLen(fn.in))
    /\ UNCHANGED hubFrame

NextFind == FindCall \/ RemoveCall \/ LenCall

SpecFind == InitFind /\ [][NextFind]_vars

\* ---- SpecFinish: one call of Event.finish(ctx) on an Event with up to
\* MaxCallbacks completion callbacks, nil ones among them, one loop
\* iteration per step.
Contexts == {"ctx1", "ctx2"}

\* The callback lists of n entries.
CallbackLists(n) == [1..n -> Callbacks]

\* finish's loop body as it would be if every entry were called.
finishStepCallsNil(st, cb, ctx) ==
    [i |-> st.i + 1, ran |-> Append(st.ran, [cb |-> cb, ctx |-> ctx])]

\* finish's loop body for the entry cb: cb(ctx, e) unless cb is nil.  st is
\* the number of entries passed and the calls made so far.
finishStep(st, cb, ctx) ==
    IF cb # NilCb
    THEN [i |-> st.i + 1, ran |-> Append(st.ran, [cb |-> cb, ctx |-> ctx])]
    ELSE [st EXCEPT !.i = @ + 1]

InitFinish ==
    /\ NewHub({}, NoTally)
    /\ \E n \in 0..MaxCallbacks : \E l \in CallbackLists(n) : \E c \in Contexts :
          fn = [Call("finish", [fin |-> l, ctx |-> c]) EXCEPT !.out = [i |-> 0, ran |-> <<>>]]

\* One iteration of `for _, cb := range e.onFinish`.
FinishIterate ==
    /\ fn.op = "finish"
    /\ ~fn.done
    /\ fn.out.i < Len(fn.in.fin)
    /\ fn' = [fn EXCEPT !.out = finishStep(fn.out, fn.in.fin[fn.out.i + 1], fn.in.ctx)]
    /\ UNCHANGED hubFrame

\* The range is exhausted: finish returns.
FinishReturn ==
    /\ fn.op = "finish"
    /\ ~fn.done
    /\ fn.out.i = Len(fn.in.fin)
    /\ fn' = [fn EXCEPT !.done = TRUE]
    /\ UNCHANGED hubFrame

NextFinish ==
    \/ FinishIterate
    \/ FinishReturn

SpecFinish == InitFinish /\ [][NextFinish]_vars

\* ------------------------------------------------------------ properties

\* The positions of a thread that holds the read lock.
ReadPcs == {"pub_iter", "pub_handler", "len_locked"}

\* The positions of a thread that holds the write lock.
WritePcs == {"sub_locked", "unsub_locked", "clear_locked", "pub_unsub_locked"}

\* The positions of a thread that has called Lock() and waits for the readers.
WaitPcs == {"sub_wait", "unsub_wait", "clear_wait", "pub_unsub_wait"}

\* The subscriptions handed to cb by Publish call p, as a set.
MatchedSet(p) == {pubs[p].matched[i] : i \in 1..Len(pubs[p].matched)}

\* The goroutines of Publish call p that are at one of the positions in P.
TasksAt(p, P) == {id \in DOMAIN tasks : id[1] = p /\ tasks[id] \in P}

\* C4: a Publish in wait mode has returned only when every handler it
\* launched has returned: every matched subscription's s.call is over and no
\* goroutine of the call is still before or inside its handler.
C4_WaitReturnsAfterHandlers ==
    \A p \in 1..Len(pubs) :
        (pubs[p].mode = "wait" /\ pubs[p].returned) =>
            /\ MatchedSet(p) \subseteq pubs[p].retd
            /\ TasksAt(p, {"start", "handler", "skipped"}) = {}

\* C4, the case: the publisher sits in wg.Wait while two of its handlers run
\* at the same time.
C4_Witness ==
    \E t \in DOMAIN pc :
        /\ pc[t] = "pub_wait"
        /\ Cardinality(TasksAt(thr[t].pub, {"handler"})) = 2

\* C5: a Publish in fire-and-forget or callback mode never waits: as long as
\* the process lives, the publisher's next step (launching the next goroutine,
\* or RUnlock and return) is enabled whatever the handlers do, and it never
\* reaches the wg.Wait position.
C5_AsyncPublishNeverWaits ==
    \A t \in DOMAIN pc :
        /\ pc[t] = "pub_wait" => pubs[thr[t].pub].mode = "wait"
        /\ (/\ ~panicked
            /\ pc[t] = "pub_iter"
            /\ pubs[thr[t].pub].mode \in {"nowait", "finish"})
           => ENABLED (PubLaunch(t) \/ PubAsyncUnlock(t))

\* C5, the case: a Publish with a completion callback has returned and its
\* thread is outside the hub while a handler it launched is still running.
C5_Witness ==
    \E p \in 1..Len(pubs) :
        /\ pubs[p].mode = "finish"
        /\ pubs[p].returned
        /\ \A t \in DOMAIN pc : pc[t] = "idle"
        /\ TasksAt(p, {"handler"}) # {}

\* C7: in callback mode no completion callback has run while a handler
\* matched by the same Publish has not returned.
C7_FinishAfterAllHandlers ==
    \A p \in 1..Len(pubs) :
        (pubs[p].mode = "finish" /\ pubs[p].finLog # <<>>) =>
            MatchedSet(p) \subseteq pubs[p].retd

\* C8: in sync and wait mode the completion callbacks run exactly once, in
\* order, when every matched handler has returned, and they have run when
\* Publish returns.
C8_BlockingFinishOnceAfterHandlers ==
    \A p \in 1..Len(pubs) :
        pubs[p].mode \in {"sync", "wait"} =>
            /\ pubs[p].finLog # <<>> =>
                  /\ pubs[p].finLog = finish(pubs[p].fin)
                  /\ MatchedSet(p) \subseteq pubs[p].retd
            /\ pubs[p].returned => pubs[p].finLog = finish(pubs[p].fin)

\* C8, the case: a wait-mode Publish with a callback and two matches has
\* returned.
C8_Witness ==
    \E p \in 1..Len(pubs) :
        /\ pubs[p].mode = "wait"
        /\ pubs[p].returned
        /\ pubs[p].fin # <<>>
        /\ Len(pubs[p].matched) = 2

\* The threads and goroutines that hold the write lock.
WriteHolders ==
    Cardinality({t \in DOMAIN pc : pc[t] \in WritePcs})
    + Cardinality({id \in DOMAIN tasks : tasks[id] = "unsub_locked"})

\* C9: handler goroutines hold no lock.  Every read lock belongs to a thread
\* between RLock and RUnlock, the write lock to a thread or goroutine inside
\* Subscribe, Unsubscribe or Clear; and a thread inside a call can take its
\* next step unless it waits in wg.Wait for its own handlers, or waits in
\* Lock() for such a lock holder.
C9_HandlersHoldNoLock ==
    /\ rwReaders = Cardinality({t \in DOMAIN pc : pc[t] \in ReadPcs})
    /\ WriteHolders = (IF rwWriter = "held" THEN 1 ELSE 0)
    /\ \A t \in DOMAIN pc :
          (pc[t] # "idle" /\ ~panicked) =>
              \/ ENABLED InCall(t)
              \/ pc[t] = "pub_wait"
              \/ pc[t] \in WaitPcs /\ rwReaders > 0
              \/ pc[t] = "pub_unsub" /\ rwWriter # "free"

\* C9, the case: a Subscribe is inside the write lock while a handler
\* launched by an asynchronous Publish is running.
C9_Witness ==
    /\ \E t \in DOMAIN pc : pc[t] = "sub_locked"
    /\ \E id \in DOMAIN tasks : tasks[id] = "handler"

\* The linear-scan dispatch: Match applied to every registered subscription.
BruteForce(lst, topicOf, t) ==
    {lst[i] : i \in {j \in 1..Len(lst) : Match(topicOf[lst[j]], t)}}

\* The elements of a sequence.
Range(q) == {q[i] : i \in 1..Len(q)}

\* C1: the handlers a Publish invokes are those of the registered
\* subscriptions whose pattern Match accepts for the event topic: what the
\* indexes hand to cb is what the linear scan finds, the handlers entered so
\* far are among them, and all of them have been entered when the iteration
\* is over.
C1_IndexDispatchIsBruteForce ==
    \A t \in DOMAIN pc :
        pc[t] \in {"pub_iter", "pub_handler"} =>
            LET p == thr[t].pub
                want == BruteForce(all, TopicOf, pubs[p].topic)
            IN  /\ MatchedSet(p) = want
                /\ Range(pubs[p].log) \subseteq want
                /\ pubs[p].queue = <<>> => Range(pubs[p].log) = want

\* C1, the case: of two registered subscriptions with one key, the event
\* went to one and not to the other.
C1_Witness ==
    \E t \in DOMAIN pc :
        /\ pc[t] = "pub_iter"
        /\ pubs[thr[t].pub].queue = <<>>
        /\ Len(all) = 2
        /\ Len(pubs[thr[t].pub].log) = 1
        /\ \A s \in Range(all) : MapLen(TopicOf[s]) > 0

\* C3: a synchronous Publish runs the handlers on the publishing thread, one
\* at a time and in ascending ID order: no goroutine exists, the handlers
\* entered have strictly ascending IDs, each one has returned before the next
\* is entered, and all matched handlers have returned when Publish returns.
C3_SyncAscendingOnPublisher ==
    \A p \in 1..Len(pubs) :
        pubs[p].mode = "sync" =>
            LET log == pubs[p].log IN
            /\ TasksAt(p, {"start", "handler", "skipped", "unsub", "unsub_wait", "unsub_locked"}) = {}
            /\ \A i, j \in 1..Len(log) : i < j => log[i] < log[j]
            /\ \A i \in 1..Len(log) - 1 : log[i] \in pubs[p].retd
            /\ pubs[p].returned => MatchedSet(p) \subseteq pubs[p].retd

\* C3, the case: a synchronous Publish has returned after two handlers, the
\* first of which was found through indexEmpty (the last candidate list) and
\* the second through a key index.
C3_Witness ==
    \E p \in 1..Len(pubs) :
        /\ pubs[p].returned
        /\ pubs[p].log = <<1, 2>>
        /\ MapLen(TopicOf[1]) = 0
        /\ MapLen(TopicOf[2]) > 0

\* C2: the handler of a once-subscription is entered exactly once as soon as
\* one s.call has reached it, whatever Publish calls race on it, and never a
\* second time.
C2_OnceHandlerRunsOnce ==
    \A s \in DOMAIN subs :
        subs[s].once => invoked[s] = (IF counter[s] > 0 THEN 1 ELSE 0)

\* C2, the case: a second s.call has reached a once-subscription that is still
\* registered, while the goroutine that will remove it has not done so.
C2_Witness ==
    \E s \in DOMAIN subs :
        /\ subs[s].once
        /\ counter[s] = 2
        /\ s \in Range(all)
        /\ Cardinality({p \in 1..Len(pubs) : s \in MatchedSet(p)}) = 2

\* The process can take no further step for Publish call p.
Over(p) ==
    \/ panicked
    \/ /\ pubs[p].returned
       /\ TasksAt(p, {"start", "handler", "skipped", "once", "oncewait"}) = {}
       /\ pubs[p].bg # "pending"

\* C6: when a Publish in callback mode is over, each completion callback has
\* run exactly once; it never runs more often.
C6_FinishExactlyOnce ==
    \A p \in 1..Len(pubs) :
        pubs[p].mode = "finish" =>
            /\ pubs[p].finLog \in {<<>>, finish(pubs[p].fin)}
            /\ Over(p) => pubs[p].finLog = finish(pubs[p].fin)

\* C10: at most one thread or goroutine is inside the write lock, and while
\* one is, no Publish is gathering matches and no Len is reading.
C10_WritersExclude ==
    /\ WriteHolders <= 1
    /\ WriteHolders = 1 => \A t \in DOMAIN pc : pc[t] \notin ReadPcs
    /\ rwWriter = "held" => rwReaders = 0

\* C10, the case: two Publish calls are gathering matches at the same time.
C10_Witness ==
    /\ \A t \in DOMAIN pc : pc[t] = "pub_iter"
    /\ rwReaders = 2

\* C11: an Unsubscribe of an ID that is not registered returns and leaves
\* the registry and the three indexes (and so Len) as they were; after any
\* Unsubscribe the ID is not registered, so a second one changes nothing.
C11_UnsubscribeUnknownIsNoOp ==
    [][\A t \in DOMAIN pc :
          UnsubscribeBody(t) =>
              /\ pc'[t] = "idle"
              /\ thr[t].id \notin Range(all')
              /\ thr[t].id \notin Range(all) => UNCHANGED hubVars]_vars

\* C11, the case: an Unsubscribe is inside the lock with an ID that was
\* issued and is no longer registered, while other subscriptions are.
C11_Witness ==
    \E t \in DOMAIN pc :
        /\ pc[t] = "unsub_locked"
        /\ thr[t].id \in DOMAIN subs
        /\ thr[t].id \notin Range(all)
        /\ all # <<>>

\* No call is in progress and no handler goroutine exists.
Quiescent ==
    /\ ~panicked
    /\ \A t \in DOMAIN pc : pc[t] = "idle"
    /\ DOMAIN tasks = {}

AbsentOrSame(after, before, k) ==
    k \notin DOMAIN after \/ (k \in DOMAIN before /\ after[k] = before[k])

\* The hub after Subscribe with the topic and an immediate Unsubscribe of the
\* ID that Subscribe returned.
SubscribeUnsubscribe(topic) ==
    LET id == seq + 1
    IN  HubUnsubscribe(HubAdd(Hub, id, topic), id, MapPut(TopicOf, id, topic))

\* C13: from every hub state and for every topic, Subscribe followed at once
\* by Unsubscribe of the returned ID leaves each bucket the subscription
\* touched (indexKeyValue[k], indexKeyValue[k][v], indexKey[k], indexEmpty)
\* absent or as it was before the Subscribe, and the registry as it was.
C13_SubscribeUnsubscribeLeavesNoBucket ==
    \A topic \in ParsedFrom(SubPairs) :
        LET h2 == SubscribeUnsubscribe(topic) IN
        /\ h2.all = all
        /\ h2.empty = indexEmpty
        /\ \A i \in 1..Len(topic) :
              LET k == topic[i].key
                  v == topic[i].value
              IN  /\ AbsentOrSame(h2.key, indexKey, k)
                  /\ AbsentOrSame(h2.kv, indexKeyValue, k)
                  /\ k \in DOMAIN h2.kv =>
                        AbsentOrSame(h2.kv[k],
                                     IF k \in DOMAIN indexKeyValue
                                     THEN indexKeyValue[k] ELSE EmptyMap, v)

\* No subscription is left in the registry or in an index of h.
HubEmpty(h) ==
    /\ SlLen(h.all) = 0
    /\ SlLen(h.empty) = 0
    /\ \A k \in DOMAIN h.key : SlLen(h.key[k]) = 0
    /\ \A k \in DOMAIN h.kv : \A v \in DOMAIN h.kv[k] : SlLen(h.kv[k][v]) = 0

\* Every Publish call that started after a Clear returned was handed only
\* subscriptions created after that Clear.
PublishAfterClear ==
    \A p \in 1..Len(pubs) :
        pubs[p].clears > 0 =>
            \A s \in MatchedSet(p) : s > calls.clearSeqs[pubs[p].clears]

\* C14: when Clear returns, Len() is 0 and no index holds a subscription; a
\* Publish that starts afterwards invokes no handler of a subscription
\* created before the Clear.
C14_ClearEmptiesHub ==
    [][/\ \A t \in DOMAIN pc : ClearBody(t) => HubEmpty(Hub)'
       /\ PublishAfterClear']_vars

\* C14, the case: a Clear dropped a subscription, and a Publish that started
\* after it was handed a subscription created since.
C14_Witness ==
    \E p \in 1..Len(pubs) :
        /\ pubs[p].clears = 1
        /\ calls.cleared > 0
        /\ pubs[p].matched # <<>>

\* C15: the ID a Subscribe returns is non-zero, was never returned before
\* (also not for a subscription since removed by Unsubscribe or Clear), is
\* greater than every ID returned earlier, and the call adds exactly one
\* subscription under that ID, also when Subscribe calls overlap.
C15_SubscribeIdsFreshAndIncreasing ==
    [][\A t \in DOMAIN pc : SubscribeBody(t) =>
          LET id == seq' IN
          /\ id # 0
          /\ id \notin DOMAIN subs
          /\ \A j \in DOMAIN subs : id > j
          /\ DOMAIN subs' = DOMAIN subs \cup {id}
          /\ SlFind(all, id) = -1
          /\ SlFind(all', id) # -1
          /\ SlLen(all') = SlLen(all) + 1]_vars

\* C15, the case: ID 1 was issued and removed again, and a later Subscribe
\* got ID 2.
C15_Witness ==
    /\ DOMAIN subs = {1, 2}
    /\ SlFind(all, 1) = -1
    /\ SlFind(all, 2) # -1

\* The keys of the map m.
KeysOf(m) == {m[i].key : i \in 1..Len(m)}

\* The pairs of m whose key is in K, in m's order.
Restrict(m, K) == SelectSeq(m, LAMBDA p : p.key \in K)

\* Two values agree when they are equal or one of them is the wildcard.
Compatible(v, w) == v = w \/ v = Any \/ w = Any

\* C16: A.Match(B) is true exactly when every key of A is a key of B with a
\* value that is equal or a wildcard on either side; keys only B has do not
\* change the result, an empty A matches every B and a non-empty A never
\* matches an empty B.
C16_MatchIffEveryKeyCompatible ==
    (fn.op = "Match" /\ fn.done) =>
        LET A == fn.in[1]
            B == fn.in[2]
        IN  /\ fn.out = (\A i \in 1..Len(A) : \E j \in 1..Len(B) :
                            /\ B[j].key = A[i].key
                            /\ Compatible(A[i].value, B[j].value))
            /\ fn.out = Match(A, Restrict(B, KeysOf(A)))
            /\ Len(A) = 0 => fn.out
            /\ (Len(A) > 0 /\ Len(B) = 0) => ~fn.out

\* C16, the case: Match returned true for a pattern with a wildcard against
\* a map that has an extra, smaller key and another value for the wildcard.
C16_Witness ==
    /\ fn.op = "Match"
    /\ fn.done
    /\ fn.out = TRUE
    /\ Len(fn.in[1]) = 1
    /\ Len(fn.in[2]) = 2
    /\ fn.in[1][1].value = Any
    /\ fn.in[2][2].key = fn.in[1][1].key
    /\ fn.in[2][2].value = "2"

\* The pairs of m, as a set.
PairsOf(m) == {m[i] : i \in 1..Len(m)}

\* C17: m.Merge(other) has the keys of both maps, is sorted by key, and a
\* key that both maps have carries the value from other.
C17_MergeIsUnionOtherWins ==
    (fn.op = "Merge" /\ fn.done) =>
        LET m == fn.in[1]
            other == fn.in[2]
            r == fn.out
        IN  /\ KeysOf(r) = KeysOf(m) \cup KeysOf(other)
            /\ \A i \in 1..(Len(r) - 1) : ~KeyLess(r[i + 1].key, r[i].key)
            /\ \A i \in 1..Len(r) :
                  IF r[i].key \in KeysOf(other)
                  THEN r[i] \in PairsOf(other)
                  ELSE r[i] \in PairsOf(m)

\* The number of backslashes that end directly before the 1-based index i.
RECURSIVE BackslashRun(_, _)
BackslashRun(str, i) ==
    IF i > 1 /\ str[i - 1] = "\\" THEN 1 + BackslashRun(str, i - 1) ELSE 0

\* The token has an '=' that is not escaped: one after an even number of
\* backslashes.
HasUnescapedEquals(str) ==
    \E i \in 1..Len(str) : str[i] = "=" /\ BackslashRun(str, i) % 2 = 0

\* The 1-based positions of d that Parse reads as the start of a pair: the
\* first, the one after a "key=value" token, the one two after a bare key.
RECURSIVE IsPairStart(_, _)
IsPairStart(d, i) ==
    \/ i = 1
    \/ i > 1 /\ IsPairStart(d, i - 1) /\ HasUnescapedEquals(d[i - 1])
    \/ i > 2 /\ IsPairStart(d, i - 2) /\ ~HasUnescapedEquals(d[i - 2])

\* A bare key, a token with no unescaped '=' read as a key, is the last
\* token: it has no following token to serve as its value.
BareKeyWithoutValue(d) ==
    /\ Len(d) > 0
    /\ IsPairStart(d, Len(d))
    /\ ~HasUnescapedEquals(d[Len(d)])

C19_ParseEmptyTokenIsEmptyMap ==
    (fn.op = "Parse" /\ fn.done /\ fn.in = << <<>> >>) =>
        /\ ~fn.out.err
        /\ Len(fn.out.data) = 0

\* What the accessors show of the Event at address p: its fields, with the
\* callbacks as a list.
Shown(mem, p) ==
    [topic    |-> mem.ev[p].topic,
     payload  |-> mem.ev[p].payload,
     wait     |-> mem.ev[p].wait,
     sync     |-> mem.ev[p].sync,
     onFinish |-> Elems(mem, mem.ev[p].onFinish)]

\* The calls of SpecEvent after NewEvent, and the field each one sets.
FieldOf ==
    [WithTopic |-> "topic", WithPayload |-> "payload", WithWait |-> "wait",
     WithSync |-> "sync", WithOnFinish |-> "onFinish", Sync |-> "sync",
     Wait |-> "wait", OnFinish |-> "onFinish"]

\* The last call was OnFinish with a nil callback.
NilOnFinish == fn.op = "OnFinish" /\ fn.in.arg = NilCb

\* Every Event that existed before the last call, the original included,
\* shows what it showed before.
EventsUnchanged ==
    /\ Len(fn.out.mem.ev) >= Len(fn.in.mem.ev)
    /\ \A p \in 1..Len(fn.in.mem.ev) : Shown(fn.out.mem, p) = Shown(fn.in.mem, p)

\* The returned Event is the original with the one field set (a callback
\* is appended; a nil callback given as an option is not).
ResultDiffersInField ==
    LET orig == Shown(fn.in.mem, fn.in.e)
        f == FieldOf[fn.op]
    IN  Shown(fn.out.mem, fn.out.ret) =
            IF NilOnFinish THEN orig
            ELSE IF f = "onFinish" THEN [orig EXCEPT !.onFinish = Append(@, fn.in.arg)]
            ELSE [orig EXCEPT ![f] = fn.in.arg]

\* The returned Event is at an address no Event had before the call.
ResultIsNew == fn.out.ret \notin 1..Len(fn.in.mem.ev)

\* C20 as stated: every modifier and every publish option returns a new
\* Event that differs from the original only in the modified field, and
\* leaves the original unchanged.
C20_ModifierReturnsNewEvent ==
    (fn.op \in DOMAIN FieldOf /\ fn.done) =>
        /\ ResultIsNew
        /\ ResultDiffersInField
        /\ EventsUnchanged

\* C20 amended: the same, except that the option OnFinish with a nil
\* callback returns the original Event itself.
C20_ModifierReturnsNewEventUnlessNilOnFinish ==
    (fn.op \in DOMAIN FieldOf /\ fn.done) =>
        /\ IF NilOnFinish THEN fn.out.ret = fn.in.e ELSE ResultIsNew
        /\ ResultDiffersInField
        /\ EventsUnchanged

\* C20, the case: WithOnFinish returned for an Event that already had a
\* callback and from which another Event with a second callback had been
\* derived before.
C20_Witness ==
    /\ fn.op = "WithOnFinish"
    /\ fn.done
    /\ Len(Shown(fn.in.mem, fn.in.e).onFinish) = 1
    /\ \E p \in 1..Len(fn.in.mem.ev) :
          /\ Len(Shown(fn.in.mem, p).onFinish) = 2
          /\ Shown(fn.in.mem, p).onFinish[1] = Shown(fn.in.mem, fn.in.e).onFinish[1]

\* The positions among the first n of the list l that hold a callback.
NonNilUpTo(l, n) == {j \in 1..n : l[j] # NilCb}

\* The k-th smallest member of the set of numbers S.
Kth(S, k) == CHOOSE j \in S : Cardinality({x \in S : x < j}) = k - 1

\* C21: the completion callbacks run one after another in the order in
\* which they were attached, each with the context finish was given (the
\* one given to Publish), and a nil callback is never run.
C21_CallbacksRunInOrderWithContext ==
    fn.op = "finish" =>
        LET l == fn.in.fin
            ran == fn.out.ran
            S == NonNilUpTo(l, fn.out.i)
        IN  /\ Len(ran) = Cardinality(S)
            /\ \A k \in 1..Len(ran) :
                  /\ ran[k].cb = l[Kth(S, k)]
                  /\ ran[k].cb # NilCb
                  /\ ran[k].ctx = fn.in.ctx
            /\ fn.done => /\ fn.out.i = Len(l)
                          /\ [k \in 1..Len(ran) |-> ran[k].cb] = finish(l)

\* C21, the case: finish returned after running two callbacks of a list
\* that has a nil entry between them.
C21_Witness ==
    /\ fn.op = "finish"
    /\ fn.done
    /\ Len(fn.in.fin) = 3
    /\ fn.in.fin[2] = NilCb
    /\ Len(fn.out.ran) = 2
    /\ fn.out.ran[1].cb # fn.out.ran[2].cb

\* The Publish calls that matched the subscription s.
PublishesOf(s) == {p \in 1..Len(pubs) : s \in MatchedSet(p)}

\* The Publish calls for which s.call of the subscription s has returned.
ReturnedFor(s) == {p \in 1..Len(pubs) : s \in pubs[p].retd}

\* C22: in every mode a handler's error changes nothing for the others: a
\* handler is entered at most once for each Publish that matched it, errors
\* or not; when a Publish is over, s.call has been made and has returned for
\* every subscription it matched, and a subscription without the once flag
\* has had its handler entered once for each such Publish; the completion
\* callbacks run as attached, with nothing of the error in them.
C22_HandlerErrorIsDropped ==
    /\ \A s \in DOMAIN subs :
          /\ invoked[s] <= Cardinality(PublishesOf(s))
          /\ ~subs[s].once => invoked[s] >= Cardinality(ReturnedFor(s))
    /\ \A p \in 1..Len(pubs) :
          /\ pubs[p].errs \subseteq pubs[p].retd
          /\ pubs[p].finLog \in {<<>>, finish(pubs[p].fin)}
          /\ (~panicked /\ Over(p)) =>
                /\ pubs[p].retd = MatchedSet(p)
                /\ pubs[p].mode \in {"sync", "wait"} => pubs[p].finLog = finish(pubs[p].fin)

\* C22, the case: a Publish is over whose first matched handler returned an
\* error and whose second matched handler was entered and returned nil.
C22_Witness ==
    \E p \in 1..Len(pubs) :
        /\ ~panicked
        /\ Over(p)
        /\ Len(pubs[p].matched) = 2
        /\ pubs[p].errs = {pubs[p].matched[1]}
        /\ ~subs[pubs[p].matched[2]].once
        /\ invoked[pubs[p].matched[2]] >= 1

\* The subscription s is in the registry or in a bucket of an index.
Registered(s) ==
    \/ s \in Range(all)
    \/ s \in Range(indexEmpty)
    \/ \E k \in DOMAIN indexKey : s \in Range(indexKey[k])
    \/ \E k \in DOMAIN indexKeyValue :
          \E v \in DOMAIN indexKeyValue[k] : s \in Range(indexKeyValue[k][v])

\* The positions of a thread in the unsub loop of publishEventSync.
PubUnsubPcs == {"pub_unsub", "pub_unsub_wait", "pub_unsub_locked"}

\* C23: when a synchronous Publish has returned, no once-subscription whose
\* handler it entered is left in the registry or in an index; and while the
\* publisher is in its unsub loop it has left the match (it no longer counts
\* among the readers) and the completion callbacks have run.
C23_SyncRemovesOnceAfterFinish ==
    /\ \A p \in 1..Len(pubs) :
          (pubs[p].mode = "sync" /\ pubs[p].returned) =>
              \A s \in Range(pubs[p].log) : subs[s].once => ~Registered(s)
    /\ rwReaders = Cardinality({t \in DOMAIN pc : pc[t] \in ReadPcs})
    /\ \A t \in DOMAIN pc :
          pc[t] \in PubUnsubPcs =>
              /\ pubs[thr[t].pub].queue = <<>>
              /\ pubs[thr[t].pub].finLog = finish(pubs[thr[t].pub].fin)

\* C23, the case: a synchronous Publish has returned that entered the handlers
\* of two once-subscriptions, one found through a key index and one through
\* indexEmpty, and whose completion callback has run.
C23_Witness ==
    \E p \in 1..Len(pubs) :
        /\ pubs[p].mode = "sync"
        /\ pubs[p].returned
        /\ pubs[p].finLog # <<>>
        /\ Len(pubs[p].log) = 2
        /\ \A s \in Range(pubs[p].log) : subs[s].once
        /\ \E s \in Range(pubs[p].log) : MapLen(TopicOf[s]) > 0

\* Every once-subscription matched by a Publish in one of the modes M is
\* removed in the end.
OnceEventuallyRemoved(M) ==
    \A s \in 1..MaxSubsFair :
        (/\ s \in DOMAIN subs
         /\ subs[s].once
         /\ \E p \in PublishesOf(s) : pubs[p].mode \in M)
            ~> ~Registered(s)

\* C24: in every publish mode, with every handler returning and fair
\* scheduling, a once-subscription that a Publish matched is in the end in
\* neither the registry nor an index, though nobody calls Unsubscribe.
C24_OnceEventuallyRemoved == OnceEventuallyRemoved({"sync", "wait", "finish", "nowait"})

\* How many times x occurs in the sequence q.
Count(q, x) == Cardinality({i \in 1..Len(q) : q[i] = x})

\* The subscription s is exactly once in the buckets of the pair (k, v).
OnceInBuckets(s, k, v) ==
    /\ k \in DOMAIN indexKeyValue
    /\ v \in DOMAIN indexKeyValue[k]
    /\ Count(indexKeyValue[k][v], s) = 1
    /\ k \in DOMAIN indexKey
    /\ Count(indexKey[k], s) = 1

\* The registry and the indexes hold the same subscriptions, each once where
\* its topic says.
IndexesAgree ==
    /\ \A s \in Range(all) :
          /\ Count(all, s) = 1
          /\ \A i \in 1..Len(TopicOf[s]) :
                OnceInBuckets(s, TopicOf[s][i].key, TopicOf[s][i].value)
          /\ Count(indexEmpty, s) = (IF MapLen(TopicOf[s]) = 0 THEN 1 ELSE 0)
    /\ Range(indexEmpty) \subseteq Range(all)
    /\ \A k \in DOMAIN indexKey : Range(indexKey[k]) \subseteq Range(all)
    /\ \A k \in DOMAIN indexKeyValue :
          \A v \in DOMAIN indexKeyValue[k] : Range(indexKeyValue[k][v]) \subseteq Range(all)

\* C25: in every quiescent state each registered subscription is exactly
\* once in the registry, in indexKeyValue[k][v] and in indexKey[k] for each
\* pair (k, v) of its topic, and in indexEmpty exactly when its topic has no
\* pair; and no bucket holds a subscription that is not registered.
C25_IndexesAgreeWithRegistry == Quiescent => IndexesAgree

\* The IDs in the sublists of a mergeSubLists call.
IdsOf(lists) == UNION {Range(lists[i]) : i \in 1..Len(lists)}

\* The sequence has no element that is not smaller than a later one.
StrictlyAscending(q) == \A i, j \in 1..Len(q) : i < j => q[i] < q[j]

\* C26: for ID-ascending sublists (empty ones, none at all, repeated IDs)
\* what mergeSubLists yields is always strictly ascending and drawn from the
\* lists, and when the consumer took everything its IDs are exactly the union
\* of the lists' IDs, each once (it is what the match loop of the hub gets).
C26_MergeYieldsAscendingUnion ==
    fn.op = "mergeSubLists" =>
        /\ StrictlyAscending(fn.out.out)
        /\ Range(fn.out.out) \subseteq IdsOf(fn.in.lists)
        /\ (fn.done /\ fn.in.k = 0) =>
              /\ Range(fn.out.out) = IdsOf(fn.in.lists)
              /\ fn.out.out = mergeSubLists(fn.in.lists)

\* C26, the case: the sequence is exhausted for three lists, one of them
\* empty, one that repeats an ID, and an ID that two lists share.
C26_Witness ==
    /\ fn.op = "mergeSubLists"
    /\ fn.done
    /\ fn.in.k = 0
    /\ Len(fn.in.lists) = 3
    /\ \E i \in 1..3 : fn.in.lists[i] = <<>>
    /\ \E i \in 1..3 : Len(fn.in.lists[i]) = 2 /\ fn.in.lists[i][1] = fn.in.lists[i][2]
    /\ \E i, j \in 1..3 : i # j /\ Range(fn.in.lists[i]) \cap Range(fn.in.lists[j]) # {}
    /\ Len(fn.out.out) = 2

\* C27: a consumer that breaks on its k-th element gets no further one, and
\* mergeSubLists returns in that very iteration: at its return exactly k
\* elements were yielded, the list the k-th came from still points at it, and
\* no list was advanced past an entry that is not below the k-th element.
C27_EarlyStopYieldsNothingMore ==
    (fn.op = "mergeSubLists" /\ fn.in.k > 0) =>
        LET lists == fn.in.lists
            st == fn.out
        IN  /\ Len(st.out) <= fn.in.k
            /\ Len(st.out) = fn.in.k =>
                  /\ fn.done
                  /\ \E i \in 1..Len(lists) :
                        /\ st.indices[i] < Len(lists[i])
                        /\ lists[i][st.indices[i] + 1] = st.out[fn.in.k]
                  /\ \A i \in 1..Len(lists) : \A j \in 1..st.indices[i] :
                        lists[i][j] < st.out[fn.in.k]

\* C27, the case: the consumer broke on its second element while two lists
\* still had entries, among them one with a larger ID.
C27_Witness ==
    /\ fn.op = "mergeSubLists"
    /\ fn.done
    /\ fn.in.k = 2
    /\ Len(fn.out.out) = 2
    /\ Cardinality({i \in 1..Len(fn.in.lists) : fn.out.indices[i] < Len(fn.in.lists[i])}) >= 2
    /\ \E x \in IdsOf(fn.in.lists) : x > fn.out.out[2]

\* The sequence is in ascending order, equal neighbours allowed.
Ascending(q) == \A i \in 1..Len(q) - 1 : q[i] <= q[i + 1]

\* The list after is the list before with id put in before the first
\* element that is not smaller than id (at the end when there is none).
InsertedBeforeFirstGreaterOrEqual(before, id, after) ==
    LET smaller == {j \in 1..Len(before) : \A i \in 1..j : before[i] < id}
        idx == Cardinality(smaller)
    IN  after = SubSeq(before, 1, idx) \o <<id>> \o SubSeq(before, idx + 1, Len(before))

\* C28: after every sequence of add and remove calls the sublist is in
\* ascending ID order, and add has put the new element in before the first
\* element whose ID is greater than or equal to the new one.
C28_SublistStaysSorted ==
    fn.op = "sublist" =>
        /\ Ascending(fn.out)
        /\ fn.in.op = "add" =>
              InsertedBeforeFirstGreaterOrEqual(fn.in.before, fn.in.id, fn.out)

\* C28, the case: an ID was added in the middle of a list of three, in front
\* of an entry with the same ID, after larger IDs had been added first.
C28_Witness ==
    /\ fn.op = "sublist"
    /\ fn.in.op = "add"
    /\ Len(fn.in.before) = 3
    /\ fn.in.before[1] < fn.in.id
    /\ fn.in.before[2] = fn.in.id
    /\ fn.in.before[3] > fn.in.id
    /\ fn.out[2] = fn.in.id

\* C29: a map that Parse returns has its pairs in ascending key order with
\* no key twice: each key is smaller than the next.
C29_ParsedKeysAscendingAndUnique ==
    (fn.op = "Parse" /\ fn.done /\ ~fn.out.err) =>
        \A i \in 1..Len(fn.out.data) - 1 :
            StrLess(fn.out.data[i].key, fn.out.data[i + 1].key)

\* The positions of the options of one kind in the list opts.
OfKind(opts, kind) == {i \in 1..Len(opts) : opts[i].kind = kind}

\* The flag as the last option of the kind leaves it: FALSE without one.
LastFlag(opts, kind) ==
    LET S == OfKind(opts, kind)
    IN  IF S = {} THEN FALSE ELSE opts[CHOOSE i \in S : \A j \in S : j <= i].v

\* Some option attaches a completion callback.
AttachesCallback(opts) == \E i \in OfKind(opts, "OnFinish") : opts[i].cb # NilCb

\* C30: no mode is chosen while the options are applied; the mode chosen
\* afterwards is sequential when the last Sync option says true, whatever
\* Wait and OnFinish options there are; else wait mode when the last Wait
\* option says true; else callback mode when an option attached a callback;
\* else fire-and-forget.  Nil options count for nothing.
C30_ModeFromFinalFlags ==
    fn.op = "Publish" =>
        /\ ~fn.done => fn.out.mode = "none"
        /\ fn.done =>
              fn.out.mode =
                 (IF LastFlag(fn.in, "Sync") THEN "sync"
                  ELSE IF LastFlag(fn.in, "Wait") THEN "wait"
                  ELSE IF AttachesCallback(fn.in) THEN "finish"
                  ELSE "nowait")

\* C30, the case: Sync(false), Wait(true), Sync(true) chose sequential
\* delivery: the later Sync option won over the earlier one, and sync over
\* wait.
C30_Witness ==
    /\ fn.op = "Publish"
    /\ fn.done
    /\ fn.in = <<[kind |-> "Sync", v |-> FALSE], [kind |-> "Wait", v |-> TRUE],
                 [kind |-> "Sync", v |-> TRUE]>>
    /\ fn.out.mode = "sync"

\* C31: with handlers and callbacks that return and do not call the hub,
\* and fair scheduling, every call that a thread is in returns and every
\* handler goroutine ends, its automatic Unsubscribe included.
C31_EveryCallReturns ==
    /\ \A t \in Threads : (pc[t] # "idle") ~> (pc[t] = "idle")
    /\ \A id \in TaskIds(Cardinality(PubIdsLive), MaxSubsLive) :
          (id \in DOMAIN tasks) ~> (id \notin DOMAIN tasks)

\* A write call made by a handler of a synchronous Publish, from the call
\* to its return.
NestedWritePcs ==
    HandlerWriteCalls \cup {"sub_wait", "unsub_wait", "clear_wait",
                            "sub_locked", "unsub_locked", "clear_locked"}

InNestedWrite(t) == thr[t].outer # 0 /\ pc[t] \in NestedWritePcs

C33_NestedPublishReturns ==
    \A t \in Threads :
       /\ (pc[t] = "h_pub") ~> (pc[t] = "pub_handler" /\ thr[t].outer = 0)
       /\ (pc[t] = "h_pub") ~> (pc[t] = "idle")

\* The positions of a Publish between h.RLock() and h.RUnlock().
GatherPcs == {"pub_iter", "pub_handler"}

\* The registered subscriptions that match the event topic.
MatchingNow(topic) == {s \in Range(all) : Match(TopicOf[s], topic)}

\* C34: what a Publish gathers is the set of registered subscriptions that
\* match its event when it takes the read lock; until it releases the read
\* lock the registry and the indexes do not change, so no Subscribe,
\* Unsubscribe or Clear takes effect, and by then every gathered
\* subscription has been handed to the delivery of the mode.
C34_PublishSeesOneSnapshot ==
    [][/\ \A p \in 1..Len(pubs') :
             IF p > Len(pubs)
             THEN Range(pubs'[p].matched) = MatchingNow(pubs'[p].topic)
             ELSE pubs'[p].matched = pubs[p].matched
       /\ (\E t \in DOMAIN pc : pc[t] \in GatherPcs) => UNCHANGED <<hubVars, subs>>
       /\ \A t \in DOMAIN pc :
             (pc[t] \in GatherPcs /\ pc'[t] \notin GatherPcs) =>
                 /\ pubs[thr[t].pub].queue = <<>>
                 /\ MatchedSet(thr[t].pub) = MatchingNow(pubs[thr[t].pub].topic)]_vars

\* C34, the case: a Publish without Sync has launched a handler and is
\* still gathering while another thread waits in Unsubscribe or Clear for
\* the write lock, with a matching subscription registered.
C34_Witness ==
    \E t \in Threads, u \in Threads :
       /\ pc[t] = "pub_iter"
       /\ pubs[thr[t].pub].mode # "sync"
       /\ Len(pubs[thr[t].pub].matched) = 2
       /\ Len(pubs[thr[t].pub].queue) = 1
       /\ pc[u] \in {"unsub_wait", "clear_wait"}

\* Publish p enters the handler of subscription s in this step.
EntersHandler(p, s) ==
    \/ /\ Len(pubs'[p].log) = Len(pubs[p].log) + 1
       /\ s = pubs'[p].log[Len(pubs'[p].log)]
    \/ /\ <<p, s>> \in DOMAIN tasks /\ tasks[<<p, s>>] = "start"
       /\ <<p, s>> \in DOMAIN tasks' /\ tasks'[<<p, s>>] = "handler"

\* C35: a Publish gathers no subscription whose Unsubscribe, called with
\* an ID that Subscribe had issued, had returned when the Publish took the
\* read lock, and it enters handlers of gathered subscriptions only; so the
\* handler of an unsubscribed ID is entered only by a Publish that had
\* gathered it before the Unsubscribe held the write lock.
C35_NoHandlerAfterUnsubscribe ==
    /\ [](\A p \in 1..Len(pubs) : MatchedSet(p) \cap pubs[p].gone = {})
    /\ [][\A p \in 1..Len(pubs), s \in DOMAIN subs :
             EntersHandler(p, s) => s \in MatchedSet(p) /\ s \notin pubs[p].gone]_vars

\* C35, the case: Unsubscribe(1) has returned; the first Publish, which had
\* gathered subscription 1 before, is in its handler, and the second
\* Publish, started after the Unsubscribe, gathered subscription 2 only.
C35_Witness ==
    /\ Len(pubs) = 2
    /\ 1 \in calls.gone
    /\ <<1, 1>> \in DOMAIN tasks /\ tasks[<<1, 1>>] = "handler"
    /\ pubs[2].gone = {1}
    /\ pubs[2].matched = <<2>>

\* C35 as stated, for every ID given to Unsubscribe: a Publish enters no
\* handler of an ID whose Unsubscribe had returned when the Publish took
\* the read lock.
C35_NoHandlerAfterAnyUnsubscribe ==
    [][\A p \in 1..Len(pubs), s \in DOMAIN subs :
          EntersHandler(p, s) => s \notin pubs[p].asked]_vars

\* The list q without the ID s.
Without(q, s) == SelectSeq(q, LAMBDA x : x # s)

\* The bucket b of the index ix after the step holds what it held, less s,
\* and is gone only if nothing else was in it.
BucketLoses(ix, ixAfter, b, s) ==
    IF b \in DOMAIN ixAfter
    THEN ixAfter[b] = Without(ix[b], s)
    ELSE Without(ix[b], s) = <<>>

\* This step removes from the hub the subscription s and nothing else.
RemovesOnly(s) ==
    /\ all' = Without(all, s)
    /\ indexEmpty' = Without(indexEmpty, s)
    /\ \A k \in DOMAIN indexKey : BucketLoses(indexKey, indexKey', k, s)
    /\ \A k \in DOMAIN indexKeyValue :
          /\ k \in DOMAIN indexKeyValue'
          /\ \A v \in DOMAIN indexKeyValue[k] :
                BucketLoses(indexKeyValue[k], indexKeyValue'[k], v, s)
    /\ s \in Range(all) => subs[s].once /\ counter[s] > 0

\* C36: the automatic Unsubscribe of a once-subscription, in a handler
\* goroutine or at the end of a synchronous Publish, takes out of the
\* registry and of every bucket that subscription, if it is still there,
\* and nothing else, whatever Clear and Subscribe did since the delivery;
\* so Len() drops by one for that subscription or not at all.
C36_AutoUnsubscribeRemovesOnlyItsOwn ==
    [][/\ \A id \in DOMAIN tasks :
             (tasks[id] = "unsub_locked" /\ id \notin DOMAIN tasks') =>
                 RemovesOnly(id[2])
       /\ \A t \in DOMAIN pc :
             (pc[t] = "pub_unsub_locked" /\ pc'[t] # "pub_unsub_locked") =>
                 RemovesOnly(Head(pubs[thr[t].pub].unsub))]_vars

\* C36, the case: the goroutine of once-subscription 2 holds the write lock
\* for its Unsubscribe after a Clear dropped subscription 2 and a Subscribe
\* registered subscription 3.
C36_Witness ==
    /\ <<1, 2>> \in DOMAIN tasks
    /\ tasks[<<1, 2>>] = "unsub_locked"
    /\ subs[2].once
    /\ all = <<3>>

\* C37: once a Publish with Wait(true) and without Sync has returned, no
\* once-subscription whose handler it ran is in the registry or in any
\* bucket (under SpecLive the one Publish is the only caller of handlers).
C37_WaitPublishLeavesNoOnce ==
    \A p \in 1..Len(pubs) :
       (pubs[p].mode = "wait" /\ pubs[p].returned) =>
           \A s \in MatchedSet(p) :
              (subs[s].once /\ invoked[s] > 0) => ~Registered(s)

\* No bucket of indexKey or of indexKeyValue is an empty sublist.
NoEmptyBucket ==
    /\ \A k \in DOMAIN indexKey : SlLen(indexKey[k]) > 0
    /\ \A k \in DOMAIN indexKeyValue :
          \A v \in DOMAIN indexKeyValue[k] : SlLen(indexKeyValue[k][v]) > 0

\* C38: whenever no call is in progress, every sublist stored under
\* indexKey[k] and under indexKeyValue[k][v] holds at least one
\* subscription.
C38_NoEmptySublistStored == Quiescent => NoEmptyBucket

\* C38, the case: the hub is empty again after Unsubscribe removed the last
\* subscription with key a: its buckets are gone (the map of values of a,
\* which only Subscribe creates and only Clear drops, is still there).
C38_Witness ==
    /\ Quiescent
    /\ all = <<>>
    /\ "a" \in DOMAIN indexKeyValue
    /\ DOMAIN indexKeyValue["a"] = {}
    /\ "a" \notin DOMAIN indexKey

\* C39: on an ascending sublist without a repeated ID, find(x) is the
\* 0-based index of the element with ID x, or -1 when there is none;
\* remove(x) leaves the list without x and otherwise as it was, in the same
\* order; len of a nil sublist is 0, and of any other the number of its
\* elements.
C39_FindRemoveLen ==
    fn.done =>
       /\ fn.op = "find" =>
             IF fn.in.id \in Range(fn.in.lst)
             THEN /\ fn.out \in 0..Len(fn.in.lst) - 1
                  /\ fn.in.lst[fn.out + 1] = fn.in.id
             ELSE fn.out = -1
       /\ fn.op = "remove" => fn.out = Without(fn.in.lst, fn.in.id)
       /\ fn.op = "len" => fn.out = (IF fn.in.nil THEN 0 ELSE Len(fn.in.lst))

\* C39, the case: remove(3) on the sublist 1, 3, 4 has left 1, 4.
C39_Witness ==
    /\ fn.op = "remove"
    /\ fn.done
    /\ fn.in.lst = <<1, 3, 4>>
    /\ fn.in.id = 3
    /\ fn.out = <<1, 4>>

=============================================================================
